---------------------------- MODULE Spec2Model ----------------------------
(***************************************************************************)
(* Model of the signal-analytics-dashboard backend.                        *)
(*                                                                         *)
(* Part A (specification Spec): the process-wide Snowflake session of      *)
(* database.py, the retry wrapper of utils/error_handler.py and the three  *)
(* shapes of route that use them, run by concurrent request threads.       *)
(*                                                                         *)
(* Part B (specification SpecQuery): the SQL the routes build from a       *)
(* request with the helpers of utils/query_utils.py, and the rows the      *)
(* warehouse answers with, for one request at a time on a live session.    *)
(*                                                                         *)
(* Part C (specification SpecSummary): /travel-time-summary step by step.  *)
(* Part D (specification SpecGeometry): the cache of /xd-geometry under    *)
(* concurrent requests.  Part E (specification SpecPure): the helpers of   *)
(* utils/query_utils.py on their own.  SpecLive is part A with the         *)
(* scheduling of the request threads.                                      *)
(*                                                                         *)
(* Part F (specifications SpecTokens and SpecAccounts): the SQLite store   *)
(* of services/subscription_store.py.  Part G (specification               *)
(* SpecDispatch): run_daily_dispatch of services/report_service.py and     *)
(* dispatch_log.  Part H (specification SpecLimiter): RateLimiter.allow of *)
(* services/rate_limiter.py under concurrent calls.                        *)
(***************************************************************************)
EXTENDS Integers, Sequences, FiniteSets, TLC

(***************************************************************************)
(* Bounds of the model.                                                    *)
(***************************************************************************)
\* Session.builder...create() succeeds at most this many times in one run.
MaxSessions == 3

\* The request threads of the WSGI server.
Threads == {"t1", "t2"}

(***************************************************************************)
(* Program constants.                                                      *)
(***************************************************************************)
\* handle_auth_error_retry(query_func, max_retries=2)
HandlerMaxRetries == 2
\* get_snowflake_session(retry=True, max_retries=2) in the routes
RouteConnectRetries == 2
\* get_snowflake_session(retry=True, max_retries=3, retry_delay=2) in the handler
ReconnectRetries == 3
\* get_snowflake_session(retry=False, max_retries=3, ...) defaults (health check)
DefaultConnectRetries == 3

\* snowflake_session = None
None == 0

SessionIds == 1..MaxSessions

(***************************************************************************)
(* Error texts.  is_auth_error looks for substrings of the lower-cased     *)
(* text; the texts below are the ones the modelled code paths can raise.   *)
(***************************************************************************)
ErrTokenExpired == "authentication token has expired"
ErrSessionGone == "390111: session no longer exists"
ErrSqlCompilation == "sql compilation error"
ErrSessionClosed == "session has been closed"
ErrNoConnection == "Unable to establish database connection"
ErrReconnectFailed == "Failed to reconnect to database after authentication error"
ErrAfterAllRetries == "Query failed after all retry attempts"
NoError == "none"

\* The texts that contain one of the five patterns of is_auth_error.
AuthPatternTexts == {ErrTokenExpired, ErrSessionGone}

is_auth_error(e) == e \in AuthPatternTexts

VARIABLES
    snowflake_session,   \* database.snowflake_session: None or a session id
    connection_status,   \* database.connection_status: connected, connecting, error
    force_new_session,   \* database._force_new_session
    sessions,            \* warehouse side: status of every session id
    pc,                  \* per thread: position in the route / handler / connect code
    gs,                  \* per thread: frame of get_snowflake_session
                         \*   retry, max (max_retries), attempt (loop index), back (return to)
    db,                  \* warehouse: the rows of TRAVEL_TIME_ANALYTICS
    q,                   \* query side: the request being answered and its response
    sm,                  \* /travel-time-summary: the request in progress, step by step
    geo,                 \* /xd-geometry: _xd_geometry_cache and every thread's position
    fn,                  \* the helper of query_utils being called, and what it returned
    store,               \* subscription_store: login_tokens, sessions, subscriptions, _DB_LOCK
    disp,                \* dispatch_log and the runs of run_daily_dispatch
    rl,                  \* rate_limiter: _events of one key and the calls of allow
    req                  \* per thread: the request and its locals
                         \*   kind       shape of the route
                         \*   attempt    loop index of handle_auth_error_retry
                         \*   ret        value get_snowflake_session returned
                         \*   sess       the local variable session of the query
                         \*   err        the exception being handled
                         \*   execCount  executions of query_func in this call
                         \*   invalCount invalidate_session calls in this call
                         \*   connNone   get_snowflake_session returned None in this request
                         \*   response   HTTP status once answered, 0 before

varsA == <<snowflake_session, connection_status, force_new_session, sessions, pc, gs, req>>

varsQ == <<db, q>>

\* The routes modelled step by step on their own.
varsR == <<sm, geo, fn>>

\* The services beside the routes.
varsS == <<store, disp, rl>>

vars == <<varsA, varsQ, varsR, varsS>>

NoFrame == [retry |-> FALSE, max |-> 0, attempt |-> 0, back |-> "none"]

NoRequest == [kind |-> "none", attempt |-> 0, ret |-> None, sess |-> None,
              err |-> NoError, execCount |-> 0, invalCount |-> 0,
              connNone |-> FALSE, response |-> 0]

(***************************************************************************)
(* Warehouse tables read by part B.  The dimension tables are fixed; the   *)
(* fact table TRAVEL_TIME_ANALYTICS is the variable db, one of FactTables. *)
(* Dates are day numbers (day 1 is a Monday), times of day are minutes     *)
(* since midnight.                                                         *)
(***************************************************************************)
\* XD segment identifiers run from 1 to MaxXD.
MaxXD == 3

\* Days of the calendar run from 1 to MaxDay.
MaxDay == 2

\* config.MAX_LEGEND_ENTITIES (10 in config.py), scaled down to the tables.
MAX_LEGEND_ENTITIES == 2

\* config.MAX_ANOMALY_LEGEND_ENTITIES (6 in config.py), scaled down likewise.
MAX_ANOMALY_LEGEND_ENTITIES == 2

XDs == 1..MaxXD

\* SQL NULL in a numeric column, and Python's None for such a value.
SqlNull == -1

\* SQL NULL in a text column.
NullText == "NULL"

\* A request value that int() rejects with ValueError.
NotANumber == -2

\* A request parameter that was not sent (request.args.get gives None).
NoHour == -3

MinutesPerHour == 60

MinutesPerDay == 1440

\* DIM_SIGNALS_XD: one row per (signal, segment).  Segment 2 belongs to two
\* signals, segment 3 has no coordinates, signal s3 has no segment.
DIM_SIGNALS_XD ==
    { [ID |-> "s1", XD |-> 1, LATITUDE |-> 44, LONGITUDE |-> 123, APPROACH |-> TRUE,
       VALID_GEOMETRY |-> TRUE, COUNTY |-> "Benton", BEARING |-> "N", ROADNAME |-> "Main"],
      [ID |-> "s1", XD |-> 2, LATITUDE |-> 44, LONGITUDE |-> 123, APPROACH |-> FALSE,
       VALID_GEOMETRY |-> TRUE, COUNTY |-> "Benton", BEARING |-> "S", ROADNAME |-> "Main"],
      [ID |-> "s2", XD |-> 2, LATITUDE |-> 45, LONGITUDE |-> 122, APPROACH |-> TRUE,
       VALID_GEOMETRY |-> FALSE, COUNTY |-> "Linn", BEARING |-> "S", ROADNAME |-> "Main"],
      [ID |-> "s2", XD |-> 3, LATITUDE |-> SqlNull, LONGITUDE |-> SqlNull, APPROACH |-> TRUE,
       VALID_GEOMETRY |-> TRUE, COUNTY |-> "Lane", BEARING |-> "E", ROADNAME |-> "Oak"],
      [ID |-> "s3", XD |-> SqlNull, LATITUDE |-> 46, LONGITUDE |-> 121, APPROACH |-> TRUE,
       VALID_GEOMETRY |-> TRUE, COUNTY |-> NullText, BEARING |-> "W", ROADNAME |-> "Elm"] }

\* DIM_SIGNALS: ODOT_MAINTAINED of every signal.
DIM_SIGNALS == [s \in {"s1", "s2", "s3"} |-> s # "s2"]

\* FREEFLOW: the segments with a free-flow travel time (one row each).
FREEFLOW == XDs

\* DIM_DATE.DAY_OF_WEEK_ISO of a day (1 = Monday ... 7 = Sunday).
DAY_OF_WEEK_ISO(day) == ((day - 1) % 7) + 1

FactRow(n, xd, day, time, anomaly, prediction) ==
    [N |-> n, XD |-> xd, DATE_ONLY |-> day, TIME_15MIN |-> time,
     IS_ANOMALY |-> anomaly, PREDICTION |-> prediction]

\* The rows a TRAVEL_TIME_ANALYTICS table is made of: noon rows of segments 1
\* and 2, early-morning rows of segment 3 and one of segment 1.
FactUniverse ==
    { FactRow(1, 1, 1, 720, FALSE, 50),
      FactRow(2, 1, 2, 720, TRUE, 50),
      FactRow(3, 2, 1, 720, FALSE, 50),
      FactRow(4, 2, 2, 735, FALSE, SqlNull),
      FactRow(5, 3, 1, 420, FALSE, 50),
      FactRow(6, 3, 2, 375, TRUE, 50),
      FactRow(7, 1, 1, 420, FALSE, 50) }

\* The fact tables of the model: every row, and a sparse table of two
\* segments with one row each.
FactTables ==
    { FactUniverse,
      {r \in FactUniverse : r.N \in {1, 5}} }

\* CHANGEPOINTS: one detected changepoint per row; SCORE is the value of
\* COALESCE(ABS(PCT_CHANGE * AVG_DIFF) * 100, 0).
CHANGEPOINTS ==
    { [N |-> 1, XD |-> 1, DATE_ONLY |-> 1, SCORE |-> 40],
      [N |-> 2, XD |-> 2, DATE_ONLY |-> 1, SCORE |-> 40],
      [N |-> 3, XD |-> 2, DATE_ONLY |-> 2, SCORE |-> 10],
      [N |-> 4, XD |-> 3, DATE_ONLY |-> 2, SCORE |-> 40] }

\* No request is being answered.
Idle == [endpoint |-> "idle"]

\* No /travel-time-summary request is in progress.
SummaryIdle == [pc |-> "idle"]

\* _xd_geometry_cache = None, and no /xd-geometry request in progress:
\*   cache     _xd_geometry_cache is not None
\*   pc        per thread: idle, connect (the cache was found empty), fetch
\*             (the query is with the warehouse), fill (the features are
\*             built), hit / filled / failed (the response is ready)
\*   fetches   the geometry queries issued so far
\*   writes    the assignments to _xd_geometry_cache so far
\*   failures  the geometry queries that raised
\*   requests  the requests received so far
\*   stale     a query was issued when the cache was already populated
GeometryIdle ==
    [cache |-> FALSE, pc |-> [t \in Threads |-> "idle"], fetches |-> 0, writes |-> 0,
     failures |-> 0, requests |-> 0, stale |-> FALSE]

\* No helper is being called.
NoCall == [op |-> "none"]

\* The email addresses the model sends, and email.strip().lower() of each.
RawEmails == {"A@x ", "b@x"}

normalize_email(email) == IF email = "A@x " THEN "a@x" ELSE email

\* The login tokens (secrets.token_urlsafe(32)) of the model.
LoginTokens == {"k1", "k2"}

\* The session tokens create_session can draw.
MaxStoreSessions == 2

\* No row with that key; fetchone() gives None.
NoRow == [email |-> ""]

\* The frame of a thread that is in no function of the store.
StoreFrameIdle == [pc |-> "idle", op |-> "none", arg |-> "", now |-> 0, ret |-> ""]

\* The database after initialize(), _DB_LOCK free, no call in progress:
\*   clock         _utcnow()
\*   lock          the thread inside `with _db_cursor()`, or "free"
\*   login_tokens  token -> [email, expires_at, used]
\*   sessions      token -> [email, expires_at]
\*   subscriptions the emails with a row
\*   exchanged     token -> the calls of consume_login_token that returned
\*                 the email since the token was stored
\*   th            per thread: pc (idle, lock: waiting for _DB_LOCK, update:
\*                 between SELECT and UPDATE, done), the function, its
\*                 argument, its reading of the clock, what it returned
StoreEmpty ==
    [clock |-> 0, lock |-> "free",
     login_tokens |-> [k \in LoginTokens |-> NoRow],
     sessions |-> [k \in 1..MaxStoreSessions |-> NoRow],
     subscriptions |-> {},
     exchanged |-> [k \in LoginTokens |-> 0],
     th |-> [t \in Threads |-> StoreFrameIdle]]

\* The last reading of _utcnow() in the model.
MaxStoreClock == 2

\* Readings of the clock in one day of _default_monitoring_window().
TicksPerDay == 2

\* The report dates the clock of the model reaches.
ReportDates == 0..(MaxStoreClock \div TicksPerDay)

\* The emails of the subscriptions, as list_subscriptions orders them.
DispatchEmails == <<"a@x", "b@x">>

\* The keys of UNIQUE(email, report_date) in dispatch_log.
DispatchKeys == {"a@x", "b@x"} \X ReportDates

\* The values of id INTEGER PRIMARY KEY AUTOINCREMENT the model can draw.
DispatchIds == 1..Cardinality(DispatchKeys)

\* No row of dispatch_log with that key.
NoLog == [id |-> 0, status |-> "", claimed_at |-> 0]

\* The frame of a thread that is not in run_daily_dispatch.
RunIdle == [pc |-> "idle", todo |-> <<>>, date |-> 0, id |-> 0, status |-> "", ret |-> "", dup |-> FALSE]

\* dispatch_log after initialize(), and no run in progress:
\*   log        (email, report_date) -> [id, status, claimed_at]
\*   next_id    the next AUTOINCREMENT value
\*   sent       (email, report_date) -> the calls of email_service.send_email
\*   finalizes  id -> the calls of finalize_daily_dispatch with that id
\*   th         per thread: pc (idle, claim, generate, finalize, done,
\*              aborted), the subscriptions still to do (the first is the
\*              current one), the report date, the claimed id, the status to
\*              finalize with, what claim_daily_dispatch answered, and
\*              whether it was called for a report that was processed or
\*              freshly claimed
DispatchIdle ==
    [log |-> [key \in DispatchKeys |-> NoLog],
     next_id |-> 1,
     sent |-> [key \in DispatchKeys |-> 0],
     finalizes |-> [id \in DispatchIds |-> 0],
     th |-> [t \in Threads |-> RunIdle]]

\* RateLimiter.__init__ and no call of allow in progress:
\*   events   self._events[key], the deque of the one key of the model
\*   clock    time.time()
\*   th       per thread: pc (idle, wait: before `with self._lock`), now
\*   allowed  the clock readings at which a call was answered as allowed
LimiterIdle ==
    [events |-> <<>>, clock |-> 0, allowed |-> <<>>,
     th |-> [t \in Threads |-> [pc |-> "idle", now |-> 0]]]

\* The routes and services modelled on their own are at rest.
InitRest ==
    /\ sm = SummaryIdle
    /\ geo = GeometryIdle
    /\ fn = NoCall
    /\ store = StoreEmpty
    /\ disp = DispatchIdle
    /\ rl = LimiterIdle

\* Part A does not query: the query side stays idle.
InitQuiet ==
    /\ db = FactUniverse
    /\ q = Idle

(***************************************************************************)
(* Warehouse / Snowpark library side.                                      *)
(***************************************************************************)
\* Sessions the Snowpark library still holds as active (not closed).
OpenSessions == {s \in SessionIds : sessions[s] \in {"live", "expired"}}

\* Ids not yet given to a session.
FreshIds == {s \in SessionIds : sessions[s] = "unused"}

\* Sessions the program still refers to.
Referenced(s) ==
    \/ snowflake_session = s
    \/ \E t \in Threads : req[t].sess = s \/ req[t].ret = s

\* get_active_session(): the one active session, or it raises (None).
ActiveSession ==
    IF Cardinality(OpenSessions) = 1 THEN CHOOSE s \in OpenSessions : TRUE ELSE None

\* What session.sql(query) on session s can do.
QueryOutcomes(s) ==
    CASE sessions[s] = "live" -> {NoError, ErrSqlCompilation}
      [] sessions[s] = "expired" -> AuthPatternTexts
      [] OTHER -> {ErrSessionClosed}

\* The session's token expires on the warehouse side (observable only for a
\* session the program still refers to).
Expire(s) ==
    /\ sessions[s] = "live"
    /\ Referenced(s)
    /\ sessions' = [sessions EXCEPT ![s] = "expired"]
    /\ UNCHANGED <<snowflake_session, connection_status, force_new_session, pc, gs, req>>

(***************************************************************************)
(* get_snowflake_session(retry, max_retries, retry_delay)                  *)
(***************************************************************************)
\* The caller's side: call get_snowflake_session and come back at `back`.
CallGetSession(t, retry, max, back) ==
    /\ pc' = [pc EXCEPT ![t] = "gs_entry"]
    /\ gs' = [gs EXCEPT ![t] = [retry |-> retry, max |-> max, attempt |-> 0,
                                back |-> back]]

\* return value: the frame is dropped and the caller holds the value.
ReturnSession(t, value) ==
    /\ pc' = [pc EXCEPT ![t] = gs[t].back]
    /\ gs' = [gs EXCEPT ![t] = NoFrame]
    /\ req' = [req EXCEPT ![t].ret = value,
                          ![t].connNone = req[t].connNone \/ value = None]

\* attempts = max_retries if retry else 1
ConnectAttempts(retry, max) == IF retry THEN max ELSE 1

\* Lines 64-80: reuse the existing session, or see another thread connecting.
GsEntry(t) ==
    /\ pc[t] = "gs_entry"
    /\ IF snowflake_session # None
       THEN /\ connection_status' =
                  [connection_status EXCEPT !.connected = TRUE, !.error = FALSE]
            /\ ReturnSession(t, snowflake_session)
       ELSE /\ pc' = [pc EXCEPT ![t] =
                         IF connection_status.connecting /\ ~gs[t].retry
                         THEN "gs_sleep" ELSE "gs_mark"]
            /\ UNCHANGED <<connection_status, gs, req>>
    /\ UNCHANGED <<snowflake_session, force_new_session, sessions>>

\* Lines 80-82: after time.sleep(1), take the session if one appeared.
GsSlept(t) ==
    /\ pc[t] = "gs_sleep"
    /\ IF snowflake_session # None
       THEN ReturnSession(t, snowflake_session)
       ELSE /\ pc' = [pc EXCEPT ![t] = "gs_mark"]
            /\ UNCHANGED <<gs, req>>
    /\ UNCHANGED <<snowflake_session, connection_status, force_new_session, sessions>>

\* Lines 84-85: connection_status['connecting'] = True
GsMark(t) ==
    /\ pc[t] = "gs_mark"
    /\ connection_status' = [connection_status EXCEPT !.connecting = TRUE]
    /\ pc' = [pc EXCEPT ![t] = "gs_loop"]
    /\ UNCHANGED <<snowflake_session, force_new_session, sessions, gs, req>>

\* Lines 87-114 and 159-160: the head of the attempt loop and get_active_session().
GsLoop(t) ==
    /\ pc[t] = "gs_loop"
    /\ IF gs[t].attempt >= ConnectAttempts(gs[t].retry, gs[t].max)
       THEN /\ connection_status' = [connection_status EXCEPT !.connecting = FALSE]
            /\ ReturnSession(t, None)
            /\ UNCHANGED snowflake_session
       ELSE IF ~force_new_session /\ ActiveSession # None
       THEN /\ snowflake_session' = ActiveSession
            /\ connection_status' =
                  [connected |-> TRUE, connecting |-> FALSE, error |-> FALSE]
            /\ ReturnSession(t, ActiveSession)
       ELSE /\ pc' = [pc EXCEPT ![t] = "gs_create"]
            /\ UNCHANGED <<snowflake_session, connection_status, gs, req>>
    /\ UNCHANGED <<force_new_session, sessions>>

\* Lines 117-143: Session.builder.configs(...).create() succeeds.
GsCreateOk(t) ==
    /\ pc[t] = "gs_create"
    /\ FreshIds # {}
    /\ LET s == CHOOSE x \in FreshIds : \A y \in FreshIds : x <= y IN
         /\ sessions' = [sessions EXCEPT ![s] = "live"]
         /\ snowflake_session' = s
         /\ ReturnSession(t, s)
    /\ connection_status' = [connected |-> TRUE, connecting |-> FALSE, error |-> FALSE]
    /\ force_new_session' = FALSE

\* Lines 145-157: the connection attempt raises.
GsCreateFail(t) ==
    /\ pc[t] = "gs_create"
    /\ IF gs[t].retry /\ gs[t].attempt < ConnectAttempts(gs[t].retry, gs[t].max) - 1
       THEN /\ connection_status' = [connection_status EXCEPT !.error = TRUE]
            /\ pc' = [pc EXCEPT ![t] = "gs_backoff"]
            /\ UNCHANGED <<gs, req>>
       ELSE /\ connection_status' =
                  [connection_status EXCEPT !.error = TRUE, !.connecting = FALSE]
            /\ ReturnSession(t, None)
    /\ UNCHANGED <<snowflake_session, force_new_session, sessions>>

\* Lines 152-154 with the loop index left as it is.
GsBackoff_SameAttempt(t) ==
    /\ pc[t] = "gs_backoff"
    /\ pc' = [pc EXCEPT ![t] = "gs_loop"]
    /\ UNCHANGED <<snowflake_session, connection_status, force_new_session, sessions, gs, req>>

\* Lines 152-154: time.sleep(retry_delay); continue
GsBackoff(t) ==
    /\ pc[t] = "gs_backoff"
    /\ gs' = [gs EXCEPT ![t].attempt = gs[t].attempt + 1]
    /\ pc' = [pc EXCEPT ![t] = "gs_loop"]
    /\ UNCHANGED <<snowflake_session, connection_status, force_new_session, sessions, req>>

(***************************************************************************)
(* invalidate_session()                                                    *)
(***************************************************************************)
\* Lines 43-49: close the session the global currently names, if any.
InvalidateClose(t) ==
    /\ pc[t] = "inv_close"
    /\ sessions' = IF snowflake_session # None
                   THEN [sessions EXCEPT ![snowflake_session] = "closed"]
                   ELSE sessions
    /\ pc' = [pc EXCEPT ![t] = "inv_clear"]
    /\ req' = [req EXCEPT ![t].invalCount = req[t].invalCount + 1]
    /\ UNCHANGED <<snowflake_session, connection_status, force_new_session, gs>>

\* Lines 51-55: forget the session and force a new one; then the handler's
\* get_snowflake_session(retry=True, max_retries=3, retry_delay=2) (line 40).
InvalidateClear(t) ==
    /\ pc[t] = "inv_clear"
    /\ snowflake_session' = None
    /\ connection_status' =
          [connection_status EXCEPT !.connected = FALSE, !.error = FALSE]
    /\ force_new_session' = TRUE
    /\ CallGetSession(t, TRUE, ReconnectRetries, "h_reconnected")
    /\ UNCHANGED <<sessions, req>>

(***************************************************************************)
(* handle_auth_error_retry(query_func, max_retries=2)                      *)
(***************************************************************************)
\* for attempt in range(max_retries + 1)
HandlerAttempts == HandlerMaxRetries + 1

\* Lines 31-35 with the classification dropped: every error is retried.
ShouldRetryAnyError(e, a) == a < HandlerMaxRetries

\* Lines 31-35 with the test of the attempts left dropped.
ShouldRetryNoLimit(e, a) == is_auth_error(e)

\* Lines 31-35: is_auth_error(e) and attempt < max_retries
ShouldRetry(e, a) == is_auth_error(e) /\ a < HandlerMaxRetries

\* Lines 23-26 and 56: one iteration calls query_func(); execute_query begins
\* with get_snowflake_session(retry=True, max_retries=2).
HandlerExec(t) ==
    /\ pc[t] = "h_exec"
    /\ IF req[t].attempt < HandlerAttempts
       THEN /\ req' = [req EXCEPT ![t].execCount = req[t].execCount + 1]
            /\ CallGetSession(t, TRUE, RouteConnectRetries, "q_got")
       ELSE /\ req' = [req EXCEPT ![t].err = ErrAfterAllRetries]
            /\ pc' = [pc EXCEPT ![t] = "r_except"]
            /\ UNCHANGED gs
    /\ UNCHANGED <<snowflake_session, connection_status, force_new_session, sessions>>

\* execute_query: if not session: raise Exception("Unable to establish ...")
QueryGotSession(t) ==
    /\ pc[t] = "q_got"
    /\ IF req[t].ret = None
       THEN /\ req' = [req EXCEPT ![t].err = ErrNoConnection]
            /\ pc' = [pc EXCEPT ![t] = "h_except"]
       ELSE /\ req' = [req EXCEPT ![t].sess = req[t].ret, ![t].ret = None]
            /\ pc' = [pc EXCEPT ![t] = "q_sql"]
    /\ UNCHANGED <<snowflake_session, connection_status, force_new_session, sessions, gs>>

\* execute_query: session.sql(query).to_arrow() and the response, or it raises.
QuerySql(t) ==
    /\ pc[t] = "q_sql"
    /\ \E o \in QueryOutcomes(req[t].sess) :
         IF o = NoError
         THEN /\ req' = [req EXCEPT ![t].response = 200, ![t].sess = None]
              /\ pc' = [pc EXCEPT ![t] = "done"]
         ELSE /\ req' = [req EXCEPT ![t].err = o, ![t].sess = None]
              /\ pc' = [pc EXCEPT ![t] = "h_except"]
    /\ UNCHANGED <<snowflake_session, connection_status, force_new_session, sessions, gs>>

\* Lines 29-53: the except clause of the handler.
HandlerExcept(t) ==
    /\ pc[t] = "h_except"
    /\ pc' = [pc EXCEPT ![t] =
                 IF ShouldRetry(req[t].err, req[t].attempt)
                 THEN "inv_close" ELSE "r_except"]
    /\ UNCHANGED <<snowflake_session, connection_status, force_new_session, sessions,
                   gs, req>>

\* Lines 40-46: the reconnect came back; raise if it failed, else sleep and continue.
HandlerReconnected(t) ==
    /\ pc[t] = "h_reconnected"
    /\ IF req[t].ret = None
       THEN /\ req' = [req EXCEPT ![t].err = ErrReconnectFailed]
            /\ pc' = [pc EXCEPT ![t] = "r_except"]
       ELSE /\ req' = [req EXCEPT ![t].attempt = req[t].attempt + 1, ![t].ret = None]
            /\ pc' = [pc EXCEPT ![t] = "h_exec"]
    /\ UNCHANGED <<snowflake_session, connection_status, force_new_session, sessions, gs>>

(***************************************************************************)
(* Routes.                                                                 *)
(*   wrapped: api_before_after / api_anomalies, the query runs inside      *)
(*            handle_auth_error_retry;                                     *)
(*   direct:  api_travel_time, the route connects and queries itself;      *)
(*   health:  app.health_check, get_snowflake_session() without retry.     *)
(***************************************************************************)
RouteKinds == {"wrapped", "direct", "health"}

\* The except clause of a wrapped route: 503 for an auth error, else 500.
RouteErrorStatus(e) == IF is_auth_error(e) THEN 503 ELSE 500

\* A request arrives at the thread.
RouteStart(t, k) ==
    /\ pc[t] = "idle"
    /\ req' = [req EXCEPT ![t].kind = k]
    /\ CASE k = "wrapped" -> pc' = [pc EXCEPT ![t] = "h_exec"] /\ UNCHANGED gs
         [] k = "direct" -> CallGetSession(t, TRUE, RouteConnectRetries, "d_got")
         [] k = "health" -> CallGetSession(t, FALSE, DefaultConnectRetries, "hc_got")
    /\ UNCHANGED <<snowflake_session, connection_status, force_new_session, sessions>>

\* try: return handle_auth_error_retry(execute_query) / except Exception as e
RouteExcept(t) ==
    /\ pc[t] = "r_except"
    /\ req' = [req EXCEPT ![t].response = RouteErrorStatus(req[t].err)]
    /\ pc' = [pc EXCEPT ![t] = "done"]
    /\ UNCHANGED <<snowflake_session, connection_status, force_new_session, sessions, gs>>

\* api_travel_time: if not session: return "Connecting to Database ...", 503
DirectGotSession(t) ==
    /\ pc[t] = "d_got"
    /\ IF req[t].ret = None
       THEN /\ req' = [req EXCEPT ![t].response = 503]
            /\ pc' = [pc EXCEPT ![t] = "done"]
       ELSE /\ req' = [req EXCEPT ![t].sess = req[t].ret, ![t].ret = None]
            /\ pc' = [pc EXCEPT ![t] = "d_sql"]
    /\ UNCHANGED <<snowflake_session, connection_status, force_new_session, sessions, gs>>

\* api_travel_time: try: session.sql(query)... except Exception: return ..., 500
DirectSql(t) ==
    /\ pc[t] = "d_sql"
    /\ \E o \in QueryOutcomes(req[t].sess) :
         req' = [req EXCEPT ![t].err = o, ![t].sess = None,
                            ![t].response = IF o = NoError THEN 200 ELSE 500]
    /\ pc' = [pc EXCEPT ![t] = "done"]
    /\ UNCHANGED <<snowflake_session, connection_status, force_new_session, sessions, gs>>

\* app.health_check: always answers, healthy or unhealthy.
HealthGotSession(t) ==
    /\ pc[t] = "hc_got"
    /\ req' = [req EXCEPT ![t].response = 200, ![t].ret = None]
    /\ pc' = [pc EXCEPT ![t] = "done"]
    /\ UNCHANGED <<snowflake_session, connection_status, force_new_session, sessions, gs>>

\* The response is sent; the thread is free for the next request and the
\* request's locals are gone.
RouteDone(t) ==
    /\ pc[t] = "done"
    /\ pc' = [pc EXCEPT ![t] = "idle"]
    /\ req' = [req EXCEPT ![t] = NoRequest]
    /\ UNCHANGED <<snowflake_session, connection_status, force_new_session, sessions, gs>>

(***************************************************************************)
(* Specification of part A.                                                *)
(***************************************************************************)
InitA ==
    /\ snowflake_session = None
    /\ connection_status = [connected |-> FALSE, connecting |-> FALSE, error |-> FALSE]
    /\ force_new_session = FALSE
    /\ sessions = [s \in SessionIds |-> "unused"]
    /\ pc = [t \in Threads |-> "idle"]
    /\ gs = [t \in Threads |-> NoFrame]
    /\ req = [t \in Threads |-> NoRequest]

Init == InitA /\ InitQuiet /\ InitRest

Next ==
    \/ \E t \in Threads, k \in RouteKinds : RouteStart(t, k) /\ UNCHANGED <<varsQ, varsR, varsS>>
    \/ \E t \in Threads : GsEntry(t) /\ UNCHANGED <<varsQ, varsR, varsS>>
    \/ \E t \in Threads : GsSlept(t) /\ UNCHANGED <<varsQ, varsR, varsS>>
    \/ \E t \in Threads : GsMark(t) /\ UNCHANGED <<varsQ, varsR, varsS>>
    \/ \E t \in Threads : GsLoop(t) /\ UNCHANGED <<varsQ, varsR, varsS>>
    \/ \E t \in Threads : GsCreateOk(t) /\ UNCHANGED <<varsQ, varsR, varsS>>
    \/ \E t \in Threads : GsCreateFail(t) /\ UNCHANGED <<varsQ, varsR, varsS>>
    \/ \E t \in Threads : GsBackoff(t) /\ UNCHANGED <<varsQ, varsR, varsS>>
    \/ \E t \in Threads : InvalidateClose(t) /\ UNCHANGED <<varsQ, varsR, varsS>>
    \/ \E t \in Threads : InvalidateClear(t) /\ UNCHANGED <<varsQ, varsR, varsS>>
    \/ \E t \in Threads : HandlerExec(t) /\ UNCHANGED <<varsQ, varsR, varsS>>
    \/ \E t \in Threads : QueryGotSession(t) /\ UNCHANGED <<varsQ, varsR, varsS>>
    \/ \E t \in Threads : QuerySql(t) /\ UNCHANGED <<varsQ, varsR, varsS>>
    \/ \E t \in Threads : HandlerExcept(t) /\ UNCHANGED <<varsQ, varsR, varsS>>
    \/ \E t \in Threads : HandlerReconnected(t) /\ UNCHANGED <<varsQ, varsR, varsS>>
    \/ \E t \in Threads : RouteExcept(t) /\ UNCHANGED <<varsQ, varsR, varsS>>
    \/ \E t \in Threads : DirectGotSession(t) /\ UNCHANGED <<varsQ, varsR, varsS>>
    \/ \E t \in Threads : DirectSql(t) /\ UNCHANGED <<varsQ, varsR, varsS>>
    \/ \E t \in Threads : HealthGotSession(t) /\ UNCHANGED <<varsQ, varsR, varsS>>
    \/ \E t \in Threads : RouteDone(t) /\ UNCHANGED <<varsQ, varsR, varsS>>
    \/ \E s \in SessionIds : Expire(s) /\ UNCHANGED <<varsQ, varsR, varsS>>

Spec == Init /\ [][Next]_vars

\* The steps of thread t inside a request.  Every one of them is a statement
\* of the thread's own code, a sleep of fixed length or a call to the
\* warehouse that returns or raises; none waits for another thread.
RequestStep(t) ==
    \/ GsEntry(t) \/ GsSlept(t) \/ GsMark(t) \/ GsLoop(t)
    \/ GsCreateOk(t) \/ GsCreateFail(t) \/ GsBackoff(t)
    \/ InvalidateClose(t) \/ InvalidateClear(t)
    \/ HandlerExec(t) \/ QueryGotSession(t) \/ QuerySql(t)
    \/ HandlerExcept(t) \/ HandlerReconnected(t) \/ RouteExcept(t)
    \/ DirectGotSession(t) \/ DirectSql(t) \/ HealthGotSession(t)

\* Part A for the question whether a request is answered: thread t1 serves
\* requests of every shape, one after the other, while thread t2 serves the
\* health check the frontend polls, which connects and marks the connection
\* state beside it, and tokens expire at any moment.
NextLive ==
    \/ \E k \in RouteKinds : RouteStart("t1", k) /\ UNCHANGED <<varsQ, varsR, varsS>>
    \/ RouteStart("t2", "health") /\ UNCHANGED <<varsQ, varsR, varsS>>
    \/ \E t \in Threads : RequestStep(t) /\ UNCHANGED <<varsQ, varsR, varsS>>
    \/ \E t \in Threads : RouteDone(t) /\ UNCHANGED <<varsQ, varsR, varsS>>
    \/ \E s \in SessionIds : Expire(s) /\ UNCHANGED <<varsQ, varsR, varsS>>

\* The scheduling of the server: a thread that is inside a request is not
\* suspended forever.  That a request arrives, that a response is collected
\* and that a token expires are not obligations.
SpecLive ==
    /\ Init
    /\ [][NextLive]_vars
    /\ \A t \in Threads : WF_vars(RequestStep(t) /\ UNCHANGED <<varsQ, varsR, varsS>>)

(***************************************************************************)
(* Claims about the session and the retry wrapper (specification Spec).    *)
(***************************************************************************)
\* Threads between connection_status['connecting'] = True and leaving the loop.
ConnectingSection == {"gs_loop", "gs_create", "gs_backoff"}

\* C1 as stated: over any sequence of failures, one call of
\* handle_auth_error_retry executes the query function at most twice.
C1_AtMostTwoExecutions == \A t \in Threads : req[t].execCount <= 2

\* C1 amended: one call of handle_auth_error_retry executes the query function
\* at most max_retries + 1 = 3 times, invalidates the session at most
\* max_retries = 2 times, and every execution after the first follows an
\* invalidation of its own.
C1_AtMostMaxRetriesPlusOne ==
    \A t \in Threads :
        /\ req[t].execCount <= HandlerMaxRetries + 1
        /\ req[t].invalCount <= HandlerMaxRetries
        /\ req[t].execCount <= req[t].invalCount + 1

\* A call that ran the query three times, after two invalidations, is answered.
C1_Witness ==
    \E t \in Threads :
        /\ pc[t] = "done"
        /\ req[t].execCount = HandlerMaxRetries + 1
        /\ req[t].invalCount = HandlerMaxRetries

\* C2: at most one thread at a time is inside the connection-establishment
\* section of get_snowflake_session.
C2_OneThreadConnecting ==
    Cardinality({t \in Threads : pc[t] \in ConnectingSection}) <= 1

\* C3: no second warehouse session is created for one connect/reconnect
\* transition: the program never has two open warehouse sessions.
C3_NoDuplicateSession == Cardinality(OpenSessions) <= 1

\* C4: when query_func fails with an error that is_auth_error does not
\* classify as session/authentication expiry, the handler re-raises it at once:
\* its next step is the route's except clause, which answers, and neither step
\* executes the query again or invalidates or replaces the warehouse session.
C4_NonAuthNotRetried ==
    [][\A t \in Threads :
         /\ (pc[t] = "h_except" /\ ~is_auth_error(req[t].err) /\ pc'[t] # pc[t])
               => /\ pc'[t] = "r_except"
                  /\ req'[t] = req[t]
                  /\ UNCHANGED <<snowflake_session, sessions, force_new_session>>
         /\ (pc[t] = "r_except" /\ ~is_auth_error(req[t].err) /\ pc'[t] # pc[t])
               => /\ pc'[t] = "done"
                  /\ req'[t] = [req[t] EXCEPT !.response = 500]
                  /\ UNCHANGED <<snowflake_session, sessions, force_new_session>>
      ]_vars

\* A call whose second execution failed with a SQL error is answered 500 after
\* two executions and the one invalidation that preceded the second.
C4_Witness ==
    \E t \in Threads :
        /\ pc[t] = "done"
        /\ req[t].err = ErrSqlCompilation
        /\ req[t].kind = "wrapped"
        /\ req[t].execCount = 2
        /\ req[t].invalCount = 1
        /\ req[t].response = 500

\* C5: a request to an endpoint that needs the warehouse, during which
\* get_snowflake_session gave up (returned None), is answered 503.
C5_ExhaustedAnswers503 ==
    \A t \in Threads :
        (pc[t] = "done" /\ req[t].kind \in {"wrapped", "direct"} /\ req[t].connNone)
            => req[t].response = 503

\* The HTTP statuses of a request that has been answered: the table, or the
\* error the route's except clause (or its connection test) turned into a
\* response.
TerminalStatuses == {200, 500, 503}

\* C17: every request that is received is answered, and when it is answered
\* it is with the table (200) or with an error that was raised and
\* propagated to the route (500, 503); the retry loops do not go on forever.
C17_EveryRequestAnswered ==
    /\ \A t \in Threads : [](pc[t] = "done" => req[t].response \in TerminalStatuses)
    /\ \A t \in Threads : [](req[t].response # 0 => pc[t] = "done")
    /\ \A t \in Threads : (pc[t] # "idle") ~> (pc[t] = "done")

\* A request whose query runs in the handler is answered 503 after the
\* handler used its last attempt, every execution having met an expired token.
C17_Witness ==
    /\ pc["t1"] = "done"
    /\ req["t1"].kind = "wrapped"
    /\ req["t1"].execCount = HandlerAttempts
    /\ is_auth_error(req["t1"].err)
    /\ req["t1"].response = 503

\* C28: the retried query of a request that has invalidated the session and
\* reconnected does not run on a session that invalidate_session has
\* closed: no other request's handling of the expiry closes the session the
\* reconnect returned.
C28_RetryRunsOnUnclosedSession ==
    \A t \in Threads :
        (pc[t] = "q_sql" /\ req[t].invalCount >= 1 /\ req[t].sess # None)
            => sessions[req[t].sess] # "closed"

(***************************************************************************)
(* Part B.  SQL text.                                                      *)
(*                                                                         *)
(* A predicate of generated SQL is a record of the parts the code's string *)
(* operations act on: lead, the number of "AND" keywords in front of it;   *)
(* col, the column reference as a name and its qualifiers ("t.XD" has the  *)
(* qualifier t); op and arg, the comparison.  A text (a filter fragment, a *)
(* WHERE clause) is the sequence of its predicates.                        *)
(***************************************************************************)
Range(s) == {s[i] : i \in DOMAIN s}

RECURSIVE SetToSortedSeq(_)
SetToSortedSeq(S) ==
    IF S = {} THEN <<>>
    ELSE LET m == CHOOSE x \in S : \A y \in S : x <= y
         IN  <<m>> \o SetToSortedSeq(S \ {m})

Min(a, b) == IF a <= b THEN a ELSE b

Col(name) == [quals |-> <<>>, name |-> name]

QCol(alias, name) == [quals |-> <<alias>>, name |-> name]

Pred(lead, col, op, arg) == [lead |-> lead, col |-> col, op |-> op, arg |-> arg]

\* A SQL text is the sequence of its predicates; the empty string has none.
EmptySql == <<>>

\* Python's truth value of a string: `if text:` is IsText, `not text` its negation.
IsText(text) == Len(text) > 0

\* The parameter was not sent, or was sent empty (None or '').
Absent == ""

StripLeadingAndSkipped(text) == text

\* text.strip(); if text.startswith('AND '): text = text[4:]
StripLeadingAnd(text) ==
    IF Len(text) > 0 /\ text[1].lead > 0
    THEN [text EXCEPT ![1].lead = @ - 1]
    ELSE text

\* text.replace(name, alias + '.' + name): every occurrence of the column
\* name gets the alias in front, also one that already has a qualifier.
Qualify(text, name, alias) ==
    [i \in DOMAIN text |->
        IF text[i].col.name = name
        THEN [text[i] EXCEPT !.col.quals = Append(@, alias)]
        ELSE text[i]]

\* text.replace(old + '.' + name, new + '.' + name)
Requalify(text, name, old, new) ==
    [i \in DOMAIN text |->
        IF /\ text[i].col.name = name
           /\ Len(text[i].col.quals) > 0
           /\ text[i].col.quals[Len(text[i].col.quals)] = old
        THEN [text[i] EXCEPT !.col.quals[Len(text[i].col.quals)] = new]
        ELSE text[i]]

\* ' AND ' + text
PrefixAnd(text) == [text EXCEPT ![1].lead = @ + 1]

\* " AND ".join(parts), parts a list of non-empty texts
RECURSIVE JoinAnd(_)
JoinAnd(parts) ==
    IF Len(parts) = 0 THEN <<>>
    ELSE IF Len(parts) = 1 THEN parts[1]
    ELSE JoinAnd(SubSeq(parts, 1, Len(parts) - 1)) \o PrefixAnd(parts[Len(parts)])

\* Interpolation of texts one after the other into a query: an empty text
\* leaves nothing behind.
RECURSIVE Interpolate(_)
Interpolate(texts) ==
    IF Len(texts) = 0 THEN <<>>
    ELSE texts[1] \o Interpolate(Tail(texts))

\* The text parses as one predicate after WHERE and one after every AND.
WellFormedWhere(w) ==
    /\ Len(w) > 0
    /\ w[1].lead = 0
    /\ \A i \in 2..Len(w) : w[i].lead = 1

\* The column reference resolves in a query whose FROM clause has the given
\* aliases, xd_tables of whose tables have a column XD.
ColumnResolves(col, aliases, xd_tables) ==
    CASE Len(col.quals) = 0 -> (col.name = "XD" => xd_tables = 1)
      [] Len(col.quals) = 1 -> col.quals[1] \in aliases
      [] OTHER -> FALSE

(***************************************************************************)
(* utils/query_utils.py                                                    *)
(***************************************************************************)
build_xd_dimension_query_NoIdPredicate(signal_ids, approach, valid_geometry, include_xd_only) ==
    [select_xd_only |-> include_xd_only,
     where |->
        <<Pred(0, Col("LATITUDE"), "IS NOT NULL", <<>>),
          Pred(1, Col("LONGITUDE"), "IS NOT NULL", <<>>)>>
        \o (IF approach # Absent
            THEN <<Pred(1, Col("APPROACH"), "=", <<approach = "true">>)>> ELSE <<>>)
        \o (IF valid_geometry = "valid"
            THEN <<Pred(1, Col("VALID_GEOMETRY"), "=", <<TRUE>>)>>
            ELSE IF valid_geometry = "invalid"
            THEN <<Pred(1, Col("VALID_GEOMETRY"), "=", <<FALSE>>)>>
            ELSE <<>>)]

build_xd_dimension_query(signal_ids, approach, valid_geometry, include_xd_only) ==
    [select_xd_only |-> include_xd_only,
     where |->
        <<Pred(0, Col("LATITUDE"), "IS NOT NULL", <<>>),
          Pred(1, Col("LONGITUDE"), "IS NOT NULL", <<>>)>>
        \o (IF Len(signal_ids) > 0
            THEN <<Pred(1, Col("ID"), "IN", signal_ids)>> ELSE <<>>)
        \o (IF approach # Absent
            THEN <<Pred(1, Col("APPROACH"), "=", <<approach = "true">>)>> ELSE <<>>)
        \o (IF valid_geometry \notin {Absent, "all"}
            THEN IF valid_geometry = "valid"
                 THEN <<Pred(1, Col("VALID_GEOMETRY"), "=", <<TRUE>>)>>
                 ELSE IF valid_geometry = "invalid"
                 THEN <<Pred(1, Col("VALID_GEOMETRY"), "=", <<FALSE>>)>>
                 ELSE <<>>
            ELSE <<>>)]

\* The value of a column in a row of DIM_SIGNALS_XD, joined with DIM_SIGNALS
\* on ID for ODOT_MAINTAINED.
DimColumn(name, r) ==
    CASE name = "ID" -> r.ID
      [] name = "XD" -> r.XD
      [] name = "LATITUDE" -> r.LATITUDE
      [] name = "LONGITUDE" -> r.LONGITUDE
      [] name = "APPROACH" -> r.APPROACH
      [] name = "VALID_GEOMETRY" -> r.VALID_GEOMETRY
      [] name = "COUNTY" -> r.COUNTY
      [] name = "BEARING" -> r.BEARING
      [] name = "ROADNAME" -> r.ROADNAME
      [] name = "ODOT_MAINTAINED" -> DIM_SIGNALS[r.ID]

\* The warehouse's evaluation of one predicate on a DIM_SIGNALS_XD row.  A
\* comparison with NULL is never true.
EvalDim(f, r) ==
    LET v == DimColumn(f.col.name, r)
    IN  CASE f.op = "IS NOT NULL" -> v # SqlNull
          [] f.op = "IN" -> v \in Range(f.arg)
          [] f.op = "=" -> v = f.arg[1]

\* session.sql(dim_query).collect(): the rows of DIM_SIGNALS_XD the query selects.
CollectDimQuery(query) ==
    {r \in DIM_SIGNALS_XD : \A i \in DOMAIN query.where : EvalDim(query.where[i], r)}

\* The rows of DIM_SIGNALS_XD a WHERE text selects (all of them if it is empty).
DimRowsWhere(where) ==
    {r \in DIM_SIGNALS_XD : \A i \in DOMAIN where : EvalDim(where[i], r)}

\* extract_xd_values: the XD of every row, None left out.  The list stands
\* for an IN list, so its order and repetitions are not kept.
extract_xd_values(dim_result) ==
    SetToSortedSeq({r.XD : r \in dim_result} \ {SqlNull})

\* create_xd_lookup_dict(dim_result).keys()
create_xd_lookup_dict_keys(dim_result) ==
    SetToSortedSeq({r.XD : r \in dim_result} \ {SqlNull})

build_xd_filter(xd_values) ==
    IF Len(xd_values) = 0 THEN EmptySql
    ELSE <<Pred(1, Col("XD"), "IN", xd_values)>>

\* [int(d) for d in day_of_week if 1 <= int(d) <= 7]
ValidDays(day_of_week) == SelectSeq(day_of_week, LAMBDA d : 1 <= d /\ d <= 7)

\* build_day_of_week_filter without the validation of the day numbers.
build_day_of_week_filter_Unvalidated(day_of_week) ==
    IF Len(day_of_week) = 0 THEN EmptySql
    ELSE IF NotANumber \in Range(day_of_week) THEN EmptySql
    ELSE <<Pred(0, QCol("d", "DAY_OF_WEEK_ISO"), "JOIN DIM_DATE", day_of_week)>>

build_day_of_week_filter(day_of_week) ==
    IF Len(day_of_week) = 0 THEN EmptySql
    ELSE IF NotANumber \in Range(day_of_week) THEN EmptySql
    ELSE IF Len(ValidDays(day_of_week)) = 0 THEN EmptySql
    ELSE <<Pred(0, QCol("d", "DAY_OF_WEEK_ISO"), "JOIN DIM_DATE", ValidDays(day_of_week))>>

\* build_time_of_day_filter without the test for the whole day.
build_time_of_day_filter_WholeDayKept(start_hour, end_hour) ==
    IF start_hour = NoHour \/ end_hour = NoHour THEN EmptySql
    ELSE IF start_hour = NotANumber \/ end_hour = NotANumber THEN EmptySql
    ELSE IF ~(0 <= start_hour /\ start_hour <= 23 /\ 0 <= end_hour /\ end_hour <= 23)
    THEN EmptySql
    ELSE <<Pred(1, Col("TIME_15MIN"), "BETWEEN",
                <<start_hour * MinutesPerHour, end_hour * MinutesPerHour + 59>>)>>

build_time_of_day_filter(start_hour, end_hour) ==
    IF start_hour = NoHour \/ end_hour = NoHour THEN EmptySql
    ELSE IF start_hour = NotANumber \/ end_hour = NotANumber THEN EmptySql
    ELSE IF ~(0 <= start_hour /\ start_hour <= 23 /\ 0 <= end_hour /\ end_hour <= 23)
    THEN EmptySql
    ELSE IF start_hour = 0 /\ end_hour = 23 THEN EmptySql
    ELSE <<Pred(1, Col("TIME_15MIN"), "BETWEEN",
                <<start_hour * MinutesPerHour, end_hour * MinutesPerHour + 59>>)>>

\* The four-argument build_time_of_day_filter the anomaly and before/after
\* routes call: a window of hours and minutes, omitted when it is the whole
\* day (00:00 to 23:59).
build_time_of_day_filter_minutes(start_hour, start_minute, end_hour, end_minute) ==
    IF NoHour \in {start_hour, start_minute, end_hour, end_minute} THEN EmptySql
    ELSE IF NotANumber \in {start_hour, start_minute, end_hour, end_minute} THEN EmptySql
    ELSE IF ~(/\ 0 <= start_hour /\ start_hour <= 23 /\ 0 <= end_hour /\ end_hour <= 23
              /\ 0 <= start_minute /\ start_minute <= 59
              /\ 0 <= end_minute /\ end_minute <= 59)
    THEN EmptySql
    ELSE IF start_hour = 0 /\ start_minute = 0 /\ end_hour = 23 /\ end_minute = 59
    THEN EmptySql
    ELSE <<Pred(1, Col("TIME_15MIN"), "BETWEEN",
                <<start_hour * MinutesPerHour + start_minute,
                  end_hour * MinutesPerHour + end_minute>>)>>

legend_field_map ==
    [k \in {"xd", "bearing", "county", "roadname", "id"} |->
        CASE k = "xd" -> "XD"
          [] k = "bearing" -> "BEARING"
          [] k = "county" -> "COUNTY"
          [] k = "roadname" -> "ROADNAME"
          [] k = "id" -> "ID"]

\* INNER JOIN DIM_SIGNALS_XD s ON t.XD = s.XD
LegendJoin == <<Pred(0, QCol("s", "XD"), "JOIN DIM_SIGNALS_XD", <<>>)>>

build_legend_join(legend_by, max_entities) ==
    IF legend_by = Absent \/ legend_by = "none"
    THEN [join |-> EmptySql, field |-> ""]
    ELSE IF legend_by \notin DOMAIN legend_field_map
    THEN [join |-> EmptySql, field |-> ""]
    ELSE [join |-> LegendJoin, field |-> legend_field_map[legend_by]]

\* The subquery of an IN predicate: SELECT [DISTINCT] select FROM table
\* WHERE where [GROUP BY select ORDER BY COUNT(*) DESC] [LIMIT limit];
\* limit 0 stands for no LIMIT clause.
Subquery(table, select, where, ranked, limit) ==
    [table |-> table, select |-> select, where |-> where,
     ranked |-> ranked, limit |-> limit]

build_legend_filter(legend_field, max_entities, xd_filter, start_date, end_date, time_filter, dow_join) ==
    IF legend_field = "" THEN EmptySql
    ELSE IF legend_field = "XD"
    THEN LET clean_xd == IF IsText(xd_filter) THEN StripLeadingAnd(xd_filter) ELSE <<>>
             date_filter == <<Pred(0, Col("DATE_ONLY"), "BETWEEN", <<start_date, end_date>>)>>
             where_clause == IF IsText(clean_xd)
                             THEN clean_xd \o PrefixAnd(date_filter)
                             ELSE date_filter
         IN  <<Pred(1, QCol("t", "XD"), "IN_SUBQUERY",
                    Subquery("TRAVEL_TIME_ANALYTICS", "XD", where_clause, TRUE,
                             max_entities))>>
    ELSE LET stripped == IF IsText(xd_filter) THEN StripLeadingAnd(xd_filter) ELSE <<>>
             replaced == Requalify(stripped, "XD", "t", "sub_s")
             clean_xd == IF /\ IsText(replaced)
                            /\ \A i \in DOMAIN replaced :
                                  replaced[i].col # QCol("sub_s", "XD")
                            /\ \E i \in DOMAIN replaced :
                                  replaced[i].col.name = "XD" /\ replaced[i].op = "IN"
                         THEN Qualify(replaced, "XD", "sub_s")
                         ELSE replaced
         IN  <<Pred(1, QCol("s", legend_field), "IN_SUBQUERY",
                    Subquery("DIM_SIGNALS_XD", legend_field, clean_xd, FALSE,
                             max_entities))>>

(***************************************************************************)
(* routes/api_changepoints.py helpers                                      *)
(***************************************************************************)
CHANGEPOINT_SEVERITY_THRESHOLD == 30

\* sanitize_identifier_list / _sanitize_string_list: the identifiers of the
\* model's requests are all well-formed and pass unchanged.
sanitize_string_list(values) == values

\* _sanitize_int_list: the values int() accepts.
sanitize_int_list(values) == SelectSeq(values, LAMBDA v : v # NotANumber)

\* _parse_positive_float(value, default)
parse_positive_float(value, default) ==
    IF value \in {NoHour, NotANumber} THEN default
    ELSE IF value < 0 THEN 0 - value ELSE value

\* _build_filtered_dim_components: the JOIN and the WHERE of the filtered
\* dimension table (alias dim, DIM_SIGNALS joined as s when maintained_by
\* asks for it).
build_filtered_dim_components(signal_ids, maintained_by, approach, valid_geometry) ==
    LET where_parts ==
            (IF Len(sanitize_string_list(signal_ids)) > 0
             THEN << <<Pred(0, QCol("dim", "ID"), "IN", sanitize_string_list(signal_ids))>> >>
             ELSE <<>>)
            \o (IF approach # Absent
                THEN << <<Pred(0, QCol("dim", "APPROACH"), "=", <<approach = "true">>)>> >>
                ELSE <<>>)
            \o (IF valid_geometry = "valid"
                THEN << <<Pred(0, QCol("dim", "VALID_GEOMETRY"), "=", <<TRUE>>)>> >>
                ELSE IF valid_geometry = "invalid"
                THEN << <<Pred(0, QCol("dim", "VALID_GEOMETRY"), "=", <<FALSE>>)>> >>
                ELSE <<>>)
            \o (IF maintained_by = "odot"
                THEN << <<Pred(0, QCol("s", "ODOT_MAINTAINED"), "=", <<TRUE>>)>> >>
                ELSE IF maintained_by = "others"
                THEN << <<Pred(0, QCol("s", "ODOT_MAINTAINED"), "=", <<FALSE>>)>> >>
                ELSE <<>>)
    IN  [join |-> IF maintained_by \in {"odot", "others"}
                  THEN <<Pred(0, QCol("s", "ID"), "JOIN DIM_SIGNALS", <<>>)>>
                  ELSE EmptySql,
         where |-> JoinAnd(where_parts)]

\* _assemble_where_clause; the route has already made severity_threshold a
\* non-negative number with _parse_positive_float.
assemble_where_clause(start_date, end_date, filter_where, selected_signals, selected_xds, severity_threshold) ==
    JoinAnd(
        << <<Pred(0, QCol("t", "DATE(TIMESTAMP)"), "BETWEEN", <<start_date, end_date>>)>> >>
        \o (IF IsText(filter_where) THEN <<filter_where>> ELSE <<>>)
        \o (IF Len(sanitize_string_list(selected_signals)) > 0
            THEN << <<Pred(0, QCol("t", "XD"), "IN_SUBQUERY",
                           Subquery("DIM_SIGNALS_XD", "XD",
                                    <<Pred(0, Col("ID"), "IN",
                                           sanitize_string_list(selected_signals))>>,
                                    FALSE, 0))>> >>
            ELSE <<>>)
        \o (IF Len(sanitize_int_list(selected_xds)) > 0
            THEN << <<Pred(0, QCol("t", "XD"), "IN", sanitize_int_list(selected_xds))>> >>
            ELSE <<>>)
        \o << <<Pred(0, QCol("t", "SCORE"), ">=", <<severity_threshold>>)>> >>)

(***************************************************************************)
(* The join-based filter helpers the anomaly and before/after routes       *)
(* import from utils.query_utils.                                          *)
(***************************************************************************)
\* build_filter_joins_and_where: a join of the fact table with
\* DIM_SIGNALS_XD (alias xd; DIM_SIGNALS as sig for maintained_by) and the
\* predicates on the dimension attributes that are set.
build_filter_joins_and_where(signal_ids, maintained_by, approach, valid_geometry) ==
    LET where_parts ==
            (IF Len(signal_ids) > 0
             THEN << <<Pred(0, QCol("xd", "ID"), "IN", signal_ids)>> >> ELSE <<>>)
            \o (IF approach # Absent
                THEN << <<Pred(0, QCol("xd", "APPROACH"), "=", <<approach = "true">>)>> >>
                ELSE <<>>)
            \o (IF valid_geometry = "valid"
                THEN << <<Pred(0, QCol("xd", "VALID_GEOMETRY"), "=", <<TRUE>>)>> >>
                ELSE IF valid_geometry = "invalid"
                THEN << <<Pred(0, QCol("xd", "VALID_GEOMETRY"), "=", <<FALSE>>)>> >>
                ELSE <<>>)
            \o (IF maintained_by = "odot"
                THEN << <<Pred(0, QCol("sig", "ODOT_MAINTAINED"), "=", <<TRUE>>)>> >>
                ELSE IF maintained_by = "others"
                THEN << <<Pred(0, QCol("sig", "ODOT_MAINTAINED"), "=", <<FALSE>>)>> >>
                ELSE <<>>)
    IN  IF Len(where_parts) = 0
        THEN [join |-> EmptySql, where |-> EmptySql]
        ELSE [join |-> <<Pred(0, QCol("xd", "XD"), "JOIN DIM_SIGNALS_XD", <<>>)>>,
              where |-> JoinAnd(where_parts)]

\* build_xd_filter_with_joins: the XD values of the dimension rows the same
\* predicates select.
build_xd_filter_with_joins(signal_ids, maintained_by, approach, valid_geometry) ==
    extract_xd_values(
        DimRowsWhere(build_filter_joins_and_where(signal_ids, maintained_by,
                                                  approach, valid_geometry).where))

(***************************************************************************)
(* The warehouse's evaluation of a generated query.                        *)
(***************************************************************************)
\* The row that stands for "no dimension table joined".
NoDimRow ==
    [ID |-> NullText, XD |-> SqlNull, LATITUDE |-> SqlNull, LONGITUDE |-> SqlNull,
     APPROACH |-> FALSE, VALID_GEOMETRY |-> FALSE, COUNTY |-> NullText,
     BEARING |-> NullText, ROADNAME |-> NullText]

TextColumns == {"ID", "COUNTY", "BEARING", "ROADNAME"}

IsNull(name, v) == IF name \in TextColumns THEN v = NullText ELSE v = SqlNull

\* The value of a column reference in a joined row: t of the fact table, x
\* of the filter join, s of the legend join.  A date literal compared with
\* TIMESTAMP is midnight of that day.
FactColumn(col, t, x, s) ==
    IF Len(col.quals) = 1 /\ col.quals[1] = "s" THEN DimColumn(col.name, s)
    ELSE IF Len(col.quals) = 1 /\ col.quals[1] \in {"xd", "sig"} THEN DimColumn(col.name, x)
    ELSE CASE col.name = "XD" -> t.XD
           [] col.name \in {"DATE_ONLY", "DATE(TIMESTAMP)"} -> t.DATE_ONLY
           [] col.name = "TIME_15MIN" -> t.TIME_15MIN
           [] col.name = "TIMESTAMP" -> t.DATE_ONLY * MinutesPerDay + t.TIME_15MIN
           [] col.name = "PREDICTION" -> t.PREDICTION
           [] col.name \in {"IS_ANOMALY", "ANOMALY"} -> t.IS_ANOMALY
           [] col.name = "SCORE" -> t.SCORE

\* The distinct values a subquery over DIM_SIGNALS_XD selects.
DimSubqueryValues(sq) == {DimColumn(sq.select, r) : r \in DimRowsWhere(sq.where)}

\* One predicate of a WHERE clause on a joined row; pick is the result of the
\* LIMITed subquery of the query, if it has one.
EvalFact(f, t, x, s, pick) ==
    LET v == FactColumn(f.col, t, x, s)
    IN  CASE f.op = "IN" -> v \in Range(f.arg)
          [] f.op = "BETWEEN" -> f.arg[1] <= v /\ v <= f.arg[2]
          [] f.op = "IS NOT NULL" -> v # SqlNull
          [] f.op = "=" -> v = f.arg[1]
          [] f.op = ">=" -> v >= f.arg[1]
          [] f.op = "<=" -> v <= f.arg[1]
          [] f.op = "IN_SUBQUERY" ->
                /\ ~IsNull(f.col.name, v)
                /\ v \in (IF f.arg.limit = 0 THEN DimSubqueryValues(f.arg) ELSE pick)

\* The fact rows a subquery over TRAVEL_TIME_ANALYTICS reads.
FactSubqueryRows(sq, facts) ==
    {t \in facts : \A i \in DOMAIN sq.where : EvalFact(sq.where[i], t, NoDimRow, NoDimRow, {})}

\* The sets of n elements (all of them if there are fewer) a LIMIT n may keep.
LimitChoices(values, n) ==
    {S \in SUBSET values : Cardinality(S) = Min(n, Cardinality(values))}

\* GROUP BY XD ORDER BY COUNT(*) DESC LIMIT n: n segments none of which has
\* fewer rows than a segment left out; ties are the warehouse's choice.
TopByVolume(rows, n) ==
    LET cands == {t.XD : t \in rows}
        volume(xd) == Cardinality({t \in rows : t.XD = xd})
    IN  {S \in LimitChoices(cands, n) :
            \A a \in S, b \in cands \ S : volume(a) >= volume(b)}

\* The results the warehouse may give for a subquery with a LIMIT.
SubqueryResults(sq, facts) ==
    IF sq.ranked THEN TopByVolume(FactSubqueryRows(sq, facts), sq.limit)
    ELSE LimitChoices(DimSubqueryValues(sq), sq.limit)

\* The subquery compiles: it has one table, aliased sub_s when it is the
\* legend's dimension subquery.
SubqueryCompiles(sq) ==
    /\ Len(sq.where) > 0 => WellFormedWhere(sq.where)
    /\ \A i \in DOMAIN sq.where :
          ColumnResolves(sq.where[i].col,
                         IF sq.table = "DIM_SIGNALS_XD" /\ sq.limit > 0
                         THEN {"sub_s"} ELSE {}, 1)

\* A query on a fact table:
\*   table, aliases, xd_tables   FROM clause: the fact table, every alias in
\*                               scope, the number of tables with a column XD
\*   freeflow                    INNER JOIN FREEFLOW f ON t.XD = f.XD
\*   dow                         build_day_of_week_filter's join, or empty
\*   filter_join, join_where     join with the (filtered) dimension table
\*   legend_join, legend_field   build_legend_join's join and column
\*   wheres                      the WHERE clause of every SELECT of the query
QueryCompiles(query) ==
    \A k \in DOMAIN query.wheres :
        /\ WellFormedWhere(query.wheres[k])
        /\ \A i \in DOMAIN query.wheres[k] :
              LET f == query.wheres[k][i]
              IN  /\ ColumnResolves(f.col, query.aliases, query.xd_tables)
                  /\ f.op = "IN_SUBQUERY" => SubqueryCompiles(f.arg)

\* The rows of the dimension table a join brings in.
JoinRows(join, where) == IF IsText(join) THEN DimRowsWhere(where) ELSE {NoDimRow}

JoinOn(join, r, t) == IsText(join) => r.XD = t.XD

DowAdmits(dow, t) ==
    IsText(dow) => DAY_OF_WEEK_ISO(t.DATE_ONLY) \in Range(dow[1].arg)

\* The joined rows (fact row, filter-join row, legend-join row) one SELECT of
\* the query keeps.
Admitted(query, where, facts, pick) ==
    {j \in facts \X JoinRows(query.filter_join, query.join_where)
                 \X JoinRows(query.legend_join, <<>>) :
        /\ query.freeflow => j[1].XD \in FREEFLOW
        /\ DowAdmits(query.dow, j[1])
        /\ JoinOn(query.filter_join, j[2], j[1])
        /\ JoinOn(query.legend_join, j[3], j[1])
        /\ \A i \in DOMAIN where : EvalFact(where[i], j[1], j[2], j[3], pick)}

\* session.sql(query): a compilation error, or per SELECT the fact rows that
\* reach the result, and the legend groups of the result.
Execute(query, facts, pick) ==
    IF ~QueryCompiles(query)
    THEN [status |-> "sql_error", rows |-> <<>>, groups |-> {}]
    ELSE [status |-> "ok",
          rows |-> [k \in DOMAIN query.wheres |->
                      {j[1].N : j \in Admitted(query, query.wheres[k], facts, pick)}],
          groups |-> IF query.legend_field = "" THEN {}
                     ELSE UNION {{DimColumn(query.legend_field, j[3]) :
                                     j \in Admitted(query, query.wheres[k], facts, pick)} :
                                 k \in DOMAIN query.wheres}]

\* The LIMITed subquery of the query is the legend filter; without one the
\* query has a single outcome.
LegendPicks(legend_filter, facts) ==
    IF IsText(legend_filter) THEN SubqueryResults(legend_filter[1].arg, facts) ELSE {{}}

(***************************************************************************)
(* Requests.  Every route reads its parameters from the query string; the  *)
(* sets below are the values the model sends.                              *)
(***************************************************************************)
\* xd_segments: not sent, one segment, every segment, or a value that is
\* not a number.
XdSegmentChoices ==
    {<<>>, SetToSortedSeq(XDs), <<NotANumber>>} \cup {<<xd>> : xd \in XDs}

DimensionFilter(signal_ids, maintained_by, approach, valid_geometry) ==
    [signal_ids |-> signal_ids, maintained_by |-> maintained_by,
     approach |-> approach, valid_geometry |-> valid_geometry]

\* signal_ids, maintained_by, approach, valid_geometry: none set, each set
\* alone, two set together, a signal without segments, an unknown signal.
DimensionChoices ==
    { DimensionFilter(<<>>, "all", Absent, Absent),
      DimensionFilter(<<"s1">>, "all", Absent, Absent),
      DimensionFilter(<<"s2">>, "all", Absent, "all"),
      DimensionFilter(<<"s1", "s2">>, "all", "true", Absent),
      DimensionFilter(<<"s2">>, "all", "true", "valid"),
      DimensionFilter(<<>>, "odot", Absent, Absent),
      DimensionFilter(<<>>, "all", "false", Absent),
      DimensionFilter(<<>>, "all", Absent, "invalid"),
      DimensionFilter(<<"s3">>, "all", Absent, Absent),
      DimensionFilter(<<"s9">>, "others", Absent, Absent) }

\* start_hour, end_hour: not sent, the whole day, a morning, an hour out of range.
HourWindows == {<<NoHour, NoHour>>, <<0, 23>>, <<6, 9>>, <<7, 24>>}

\* start_hour, start_minute, end_hour, end_minute: not sent, the whole day,
\* a morning that starts on a half hour.
MinuteWindows == {<<NoHour, NoHour, NoHour, NoHour>>, <<0, 0, 23, 59>>, <<6, 30, 9, 0>>}

\* day_of_week: not sent, Monday, Tuesday with a day out of range, a list
\* with a value that is not a number.
DayOfWeekChoices == {<<>>, <<1>>, <<2, 9>>, <<1, NotANumber>>}

LegendChoices == {Absent, "none", "xd", "county", "bogus"}

\* start_date, end_date: the first day, every day, an inverted range.
DateWindows == {<<1, 1>>, <<1, MaxDay>>, <<MaxDay, 1>>}

\* normalize_date: pd.to_datetime(date_str).strftime('%Y-%m-%d'), which gives
\* back a date that is already written that way, as all dates here are.
normalize_date(date_str) == date_str

\* A date text datetime.strptime(..., '%Y-%m-%d') rejects.
NotADate == -4

\* get_aggregation_level that takes the span of whatever it is given.
get_aggregation_level_Unguarded(start_date, end_date) ==
    LET days == end_date - start_date
    IN  IF days < 4 THEN "none"
        ELSE IF days <= 7 THEN "hourly"
        ELSE "daily"

\* get_aggregation_level with the first threshold one day late.
get_aggregation_level_FourDaysRaw(start_date, end_date) ==
    IF NotADate \in {start_date, end_date} THEN "none"
    ELSE LET days == end_date - start_date
         IN  IF days <= 4 THEN "none"
             ELSE IF days <= 7 THEN "hourly"
             ELSE "daily"

\* get_aggregation_level: the aggregation level for the span of the date
\* range, days = (end - start).days; "none" when a date does not parse.
get_aggregation_level(start_date, end_date) ==
    IF NotADate \in {start_date, end_date} THEN "none"
    ELSE LET days == end_date - start_date
         IN  IF days < 4 THEN "none"
             ELSE IF days <= 7 THEN "hourly"
             ELSE "daily"

\* get_aggregation_table: the table for the span of the date range; the
\* base table when a date does not parse.
get_aggregation_table(start_date, end_date) ==
    IF NotADate \in {start_date, end_date} THEN "TRAVEL_TIME_ANALYTICS"
    ELSE LET days == end_date - start_date
         IN  IF days < 4 THEN "TRAVEL_TIME_ANALYTICS"
             ELSE IF days <= 7 THEN "TRAVEL_TIME_HOURLY_AGG"
             ELSE "TRAVEL_TIME_DAILY_AGG"

\* [int(xd) for xd in xd_segments] raises ValueError
RaisesValueError(xd_segments) == NotANumber \in Range(xd_segments)

\* The route's own test for "a dimension filter is set":
\* signal_ids or maintained_by != 'all' or approach or
\* (valid_geometry and valid_geometry != 'all')
DimensionFilterSet(d) ==
    \/ Len(d.signal_ids) > 0
    \/ d.maintained_by # "all"
    \/ d.approach # Absent
    \/ (d.valid_geometry # Absent /\ d.valid_geometry # "all")

(***************************************************************************)
(* Responses.  A response records the request, what the route built and    *)
(* what the warehouse returned:                                            *)
(*   status     "ok", "empty" (the route answered an empty table without   *)
(*              querying the fact table), "value_error" or "sql_error"     *)
(*              (answered 500)                                             *)
(*   strategy   entity selection: "direct" (xd_segments), "lookup" (XD     *)
(*              list looked up in the dimension table), "join" (dimension  *)
(*              join in the fact query), "none"                            *)
(*   dimension  a dimension query, join or predicate took part in          *)
(*              selecting the entities of the fact query                   *)
(*   rows       per SELECT of the query, the fact rows (N) in its result   *)
(*   groups     the legend groups of the result                            *)
(*   pick       the result of the legend filter's subquery                 *)
(***************************************************************************)
Unanswered(endpoint, r, status, strategy, dimension) ==
    [endpoint |-> endpoint, req |-> r, status |-> status, strategy |-> strategy,
     dimension |-> dimension, xd_filter |-> EmptySql, filter_join |-> EmptySql,
     filter_where |-> EmptySql, time_filter |-> EmptySql, dow_filter |-> EmptySql,
     legend_field |-> "", wheres |-> <<>>, rows |-> <<>>, groups |-> {}, pick |-> {}]

Answered(endpoint, r, strategy, dimension, xd_filter, filter_where, time_filter, query, result, pick) ==
    [endpoint |-> endpoint, req |-> r, status |-> result.status, strategy |-> strategy,
     dimension |-> dimension, xd_filter |-> xd_filter, filter_join |-> query.filter_join,
     filter_where |-> filter_where, time_filter |-> time_filter, dow_filter |-> query.dow,
     legend_field |-> query.legend_field, wheres |-> query.wheres, rows |-> result.rows,
     groups |-> result.groups, pick |-> pick]

FactQuery(table, aliases, xd_tables, freeflow, dow, filter_join, join_where, legend_join, legend_field, wheres) ==
    [table |-> table, aliases |-> aliases, xd_tables |-> xd_tables, freeflow |-> freeflow,
     dow |-> dow, filter_join |-> filter_join, join_where |-> join_where,
     legend_join |-> legend_join, legend_field |-> legend_field, wheres |-> wheres]

(***************************************************************************)
(* routes/api_travel_time.py: /travel-time-aggregated                      *)
(***************************************************************************)
TravelTimeAggregatedRequests ==
    [xd_segments : XdSegmentChoices, dims : DimensionChoices,
     hours : HourWindows, dates : DateWindows]

\* The fact query of the route for the XD list it has resolved.
travel_time_aggregated_query(r, xd_values) ==
    LET start_date_str == normalize_date(r.dates[1])
        end_date_str == normalize_date(r.dates[2])
        agg_table == get_aggregation_table(start_date_str, end_date_str)
        alias == IF agg_table = "TRAVEL_TIME_ANALYTICS" THEN "t" ELSE "mv"
        timestamp_col == IF agg_table = "TRAVEL_TIME_DAILY_AGG"
                         THEN "DATE_ONLY" ELSE "TIMESTAMP"
        bound(d) == IF timestamp_col = "DATE_ONLY" THEN d ELSE d * MinutesPerDay
        time_filter == build_time_of_day_filter(r.hours[1], r.hours[2])
        xd_filter == IF Len(xd_values) > 0 THEN build_xd_filter(xd_values) ELSE EmptySql
    IN  FactQuery(agg_table, {alias, "f"}, 2, TRUE, EmptySql, EmptySql, <<>>,
                  EmptySql, "",
                  << Interpolate(<<
                        <<Pred(0, QCol(alias, timestamp_col), ">=", <<bound(start_date_str)>>)>>,
                        <<Pred(1, QCol(alias, timestamp_col), "<=", <<bound(end_date_str)>>)>>,
                        Qualify(xd_filter, "XD", alias),
                        Qualify(time_filter, "HOUR_OF_DAY", alias) >>) >>)

get_travel_time_aggregated(r, facts) ==
    LET time_filter == build_time_of_day_filter(r.hours[1], r.hours[2])
        dim_query == build_xd_dimension_query(r.dims.signal_ids, r.dims.approach,
                                              r.dims.valid_geometry, TRUE)
        dim_result == CollectDimQuery(dim_query)
        answer(strategy, xd_values) ==
            LET query == travel_time_aggregated_query(r, xd_values)
            IN  Answered("travel_time_aggregated", r, strategy, strategy = "lookup",
                         IF Len(xd_values) > 0 THEN build_xd_filter(xd_values) ELSE EmptySql,
                         EmptySql, time_filter, query, Execute(query, facts, {}), {})
    IN  IF Len(r.xd_segments) > 0
        THEN IF RaisesValueError(r.xd_segments)
             THEN Unanswered("travel_time_aggregated", r, "value_error", "direct", FALSE)
             ELSE answer("direct", r.xd_segments)
        ELSE IF Len(r.dims.signal_ids) > 0
        THEN IF dim_result = {}
             THEN Unanswered("travel_time_aggregated", r, "empty", "lookup", TRUE)
             ELSE IF Len(extract_xd_values(dim_result)) = 0
             THEN Unanswered("travel_time_aggregated", r, "empty", "lookup", TRUE)
             ELSE answer("lookup", extract_xd_values(dim_result))
        ELSE answer("none", <<>>)

(***************************************************************************)
(* routes/api_anomalies.py: /travel-time-data                              *)
(***************************************************************************)
TravelTimeDataRequests ==
    [xd_segments : XdSegmentChoices, dims : DimensionChoices,
     remove_anomalies : BOOLEAN, dates : DateWindows]

get_travel_time_data(r, facts) ==
    LET start_date_str == normalize_date(r.dates[1])
        end_date_str == normalize_date(r.dates[2])
        strategy == IF Len(r.xd_segments) > 0 THEN "direct"
                    ELSE IF Len(r.dims.signal_ids) > 0 \/ r.dims.maintained_by # "all"
                    THEN "join" ELSE "none"
        resolved == IF strategy = "direct" THEN r.xd_segments
                    ELSE IF strategy = "join"
                    THEN build_xd_filter_with_joins(r.dims.signal_ids, r.dims.maintained_by,
                                                    r.dims.approach, r.dims.valid_geometry)
                    ELSE <<>>
        base_query == build_xd_dimension_query(r.dims.signal_ids, r.dims.approach,
                                               r.dims.valid_geometry, FALSE)
        dim_query == IF Len(resolved) > 0
                     THEN [base_query EXCEPT
                              !.where = @ \o <<Pred(1, Col("XD"), "IN", resolved)>>]
                     ELSE base_query
        dim_result == CollectDimQuery(dim_query)
        xd_values == create_xd_lookup_dict_keys(dim_result)
        xd_filter == build_xd_filter(xd_values)
        query == FactQuery("TRAVEL_TIME_ANALYTICS", {}, 1, FALSE, EmptySql, EmptySql, <<>>,
                           EmptySql, "",
                           << Interpolate(<<
                                 <<Pred(0, Col("TIMESTAMP"), ">=",
                                        <<start_date_str * MinutesPerDay>>)>>,
                                 <<Pred(1, Col("TIMESTAMP"), "<=",
                                        <<end_date_str * MinutesPerDay>>)>>,
                                 xd_filter,
                                 IF r.remove_anomalies
                                 THEN <<Pred(1, Col("ANOMALY"), "=", <<FALSE>>)>>
                                 ELSE EmptySql >>) >>)
    IN  IF strategy = "direct" /\ RaisesValueError(r.xd_segments)
        THEN Unanswered("travel_time_data", r, "value_error", strategy, FALSE)
        ELSE IF strategy = "join" /\ Len(resolved) = 0
        THEN Unanswered("travel_time_data", r, "empty", strategy, TRUE)
        ELSE IF dim_result = {}
        THEN Unanswered("travel_time_data", r, "empty", strategy, TRUE)
        ELSE IF Len(xd_values) = 0
        THEN Unanswered("travel_time_data", r, "empty", strategy, TRUE)
        ELSE Answered("travel_time_data", r, strategy, TRUE, xd_filter, EmptySql,
                      EmptySql, query, Execute(query, facts, {}), {})

(***************************************************************************)
(* The entity-selection strategy of the anomaly and before/after routes.   *)
(***************************************************************************)
\* if xd_segments: ... elif signal_ids or maintained_by != 'all' or ...: ... else: ...
entity_strategy(xd_segments, dims) ==
    LET filters == build_filter_joins_and_where(dims.signal_ids, dims.maintained_by,
                                                dims.approach, dims.valid_geometry)
    IN  IF Len(xd_segments) > 0
        THEN [strategy |-> "direct", xd_filter |-> build_xd_filter(xd_segments),
              filter_join |-> EmptySql, filter_where |-> EmptySql]
        ELSE IF DimensionFilterSet(dims)
        THEN [strategy |-> "join", xd_filter |-> EmptySql,
              filter_join |-> filters.join, filter_where |-> filters.where]
        ELSE [strategy |-> "none", xd_filter |-> EmptySql,
              filter_join |-> EmptySql, filter_where |-> EmptySql]

\* The aliases of a fact query's FROM clause: t, d when DIM_DATE is joined,
\* f when FREEFLOW is, xd and sig with the filter join, s with the legend join.
FromAliases(freeflow, dow, filter_join, legend_join) ==
    {"t"} \cup (IF freeflow THEN {"f"} ELSE {})
          \cup (IF IsText(dow) THEN {"d"} ELSE {})
          \cup (IF IsText(filter_join) THEN {"xd", "sig"} ELSE {})
          \cup (IF IsText(legend_join) THEN {"s"} ELSE {})

\* The number of tables in the FROM clause with a column XD.
FromXdTables(freeflow, filter_join, legend_join) ==
    1 + (IF freeflow THEN 1 ELSE 0) + (IF IsText(filter_join) THEN 1 ELSE 0)
      + (IF IsText(legend_join) THEN 1 ELSE 0)

(***************************************************************************)
(* routes/api_anomalies.py: /anomaly-aggregated                            *)
(***************************************************************************)
AnomalyAggregatedRequests ==
    [xd_segments : XdSegmentChoices, dims : DimensionChoices, window : MinuteWindows,
     day_of_week : DayOfWeekChoices, legend_by : LegendChoices, dates : DateWindows]

\* What execute_query builds: the strategy, the legend filter and the query.
anomaly_aggregated_sql(r) ==
    LET start_date_str == normalize_date(r.dates[1])
        end_date_str == normalize_date(r.dates[2])
        time_filter == build_time_of_day_filter_minutes(r.window[1], r.window[2],
                                                        r.window[3], r.window[4])
        dow_filter == build_day_of_week_filter(r.day_of_week)
        entity == entity_strategy(r.xd_segments, r.dims)
        legend == build_legend_join(r.legend_by, MAX_ANOMALY_LEGEND_ENTITIES)
        where_parts ==
            << <<Pred(0, QCol("t", "DATE_ONLY"), "BETWEEN", <<start_date_str, end_date_str>>)>>,
               <<Pred(0, QCol("t", "PREDICTION"), "IS NOT NULL", <<>>)>> >>
            \o (IF IsText(entity.xd_filter)
                THEN <<Qualify(StripLeadingAnd(entity.xd_filter), "XD", "t")>> ELSE <<>>)
            \o (IF IsText(entity.filter_where) THEN <<entity.filter_where>> ELSE <<>>)
            \o (IF IsText(time_filter)
                THEN <<Qualify(StripLeadingAnd(time_filter), "TIME_15MIN", "t")>> ELSE <<>>)
        legend_filter ==
            IF IsText(legend.join)
            THEN build_legend_filter(legend.field, MAX_ANOMALY_LEGEND_ENTITIES,
                                     entity.xd_filter, start_date_str, end_date_str,
                                     time_filter, dow_filter)
            ELSE EmptySql
    IN  [entity |-> entity, time_filter |-> time_filter, legend_filter |-> legend_filter,
         query |-> FactQuery("TRAVEL_TIME_ANALYTICS",
                             FromAliases(FALSE, dow_filter, entity.filter_join, legend.join),
                             FromXdTables(FALSE, entity.filter_join, legend.join),
                             FALSE, dow_filter, entity.filter_join, <<>>,
                             legend.join, legend.field,
                             << JoinAnd(where_parts) \o legend_filter >>)]

get_anomaly_aggregated(r, facts, pick) ==
    LET sql == anomaly_aggregated_sql(r)
    IN  IF Len(r.xd_segments) > 0 /\ RaisesValueError(r.xd_segments)
        THEN Unanswered("anomaly_aggregated", r, "value_error", "direct", FALSE)
        ELSE Answered("anomaly_aggregated", r, sql.entity.strategy,
                      sql.entity.strategy = "join", sql.entity.xd_filter,
                      sql.entity.filter_where, sql.time_filter, sql.query,
                      Execute(sql.query, facts, pick), pick)

(***************************************************************************)
(* routes/api_before_after.py: /before-after-aggregated                    *)
(***************************************************************************)
\* before and after date ranges: the same range twice, two disjoint ranges,
\* an after range that is inverted.
ComparisonWindows ==
    { <<<<1, MaxDay>>, <<1, MaxDay>>>>, <<<<1, 1>>, <<MaxDay, MaxDay>>>>,
      <<<<1, 1>>, <<MaxDay, 1>>>> }

BeforeAfterAggregatedRequests ==
    [xd_segments : XdSegmentChoices, dims : DimensionChoices, window : MinuteWindows,
     day_of_week : DayOfWeekChoices, legend_by : LegendChoices,
     remove_anomalies : BOOLEAN, windows : ComparisonWindows]

\* build_where_clause(start_date, end_date) of the route, given what the
\* route has built before it.
build_where_clause(start_date, end_date, xd_filter, filter_where, time_filter, remove_anomalies) ==
    JoinAnd(
        << <<Pred(0, QCol("t", "DATE_ONLY"), "BETWEEN", <<start_date, end_date>>)>> >>
        \o (IF IsText(xd_filter)
            THEN <<Qualify(StripLeadingAnd(xd_filter), "XD", "t")>> ELSE <<>>)
        \o (IF IsText(filter_where) THEN <<filter_where>> ELSE <<>>)
        \o (IF IsText(time_filter)
            THEN <<Qualify(StripLeadingAnd(time_filter), "TIME_15MIN", "t")>> ELSE <<>>)
        \o (IF remove_anomalies
            THEN << <<Pred(0, QCol("t", "IS_ANOMALY"), "=", <<FALSE>>)>> >> ELSE <<>>))

\* t.TRAVEL_TIME_SECONDS / f.TRAVEL_TIME_SECONDS of a fact row, in
\* hundredths; the travel time of row 4 is NULL.
TravelTimeIndex(t) ==
    CASE t.N = 4 -> SqlNull
      [] t.IS_ANOMALY -> 200
      [] t.TIME_15MIN < 600 -> 150
      [] OTHER -> 100

RECURSIVE SumTravelTimeIndex(_)
SumTravelTimeIndex(joined) ==
    IF joined = {} THEN 0
    ELSE LET j == CHOOSE j \in joined : TRUE
         IN  TravelTimeIndex(j[1]) + SumTravelTimeIndex(joined \ {j})

\* AVG(t.TRAVEL_TIME_SECONDS / f.TRAVEL_TIME_SECONDS) over joined rows: NULL
\* values are left out, and the average of no value is NULL.
AvgTravelTimeIndex(joined) ==
    LET valued == {j \in joined : TravelTimeIndex(j[1]) # SqlNull}
    IN  IF valued = {} THEN SqlNull
        ELSE SumTravelTimeIndex(valued) \div Cardinality(valued)

\* One SELECT of the UNION: SELECT t.TIMESTAMP, [legend AS LEGEND_GROUP,]
\* AVG(...) AS TRAVEL_TIME_INDEX, period AS PERIOD ... GROUP BY t.TIMESTAMP
\* [, legend].  A group is one row, so the rows of a SELECT are a set.
series_select(query, where, facts, period) ==
    LET joined == Admitted(query, where, facts, {})
        timestamp(j) == j[1].DATE_ONLY * MinutesPerDay + j[1].TIME_15MIN
        legend(j) == IF query.legend_field = "" THEN NullText
                     ELSE DimColumn(query.legend_field, j[3])
    IN  {[TIMESTAMP |-> timestamp(j), LEGEND_GROUP |-> legend(j),
          TRAVEL_TIME_INDEX |-> AvgTravelTimeIndex(
              {k \in joined : timestamp(k) = timestamp(j) /\ legend(k) = legend(j)}),
          PERIOD |-> period] : j \in joined}

\* The collation of the PERIOD column: 'After' sorts before 'Before'.
PeriodRank(period) == IF period = "After" THEN 1 ELSE 2

\* ORDER BY PERIOD, TIMESTAMP
RECURSIVE order_by_PeriodFirst(_)
order_by_PeriodFirst(rows) ==
    IF rows = {} THEN <<>>
    ELSE LET first == CHOOSE x \in rows : \A y \in rows :
                         \/ PeriodRank(x.PERIOD) < PeriodRank(y.PERIOD)
                         \/ /\ x.PERIOD = y.PERIOD
                            /\ x.TIMESTAMP <= y.TIMESTAMP
         IN  <<first>> \o order_by_PeriodFirst(rows \ {first})

\* ORDER BY TIMESTAMP, PERIOD: rows that agree on both come in an order the
\* warehouse chooses.
RECURSIVE order_by(_)
order_by(rows) ==
    IF rows = {} THEN <<>>
    ELSE LET first == CHOOSE x \in rows : \A y \in rows :
                         \/ x.TIMESTAMP < y.TIMESTAMP
                         \/ /\ x.TIMESTAMP = y.TIMESTAMP
                            /\ PeriodRank(x.PERIOD) <= PeriodRank(y.PERIOD)
         IN  <<first>> \o order_by(rows \ {first})

\* SELECT ... 'Before' AS PERIOD ... UNION ALL SELECT ... 'After' AS PERIOD
\* ... ORDER BY TIMESTAMP, PERIOD.  No row of one SELECT equals a row of the
\* other, their PERIOD differs, so UNION ALL is the union of the two sets.
union_all_series(query, facts) ==
    order_by(series_select(query, query.wheres[1], facts, "Before")
             \cup series_select(query, query.wheres[2], facts, "After"))

get_before_after_aggregated(r, facts) ==
    LET before_start_str == normalize_date(r.windows[1][1])
        before_end_str == normalize_date(r.windows[1][2])
        after_start_str == normalize_date(r.windows[2][1])
        after_end_str == normalize_date(r.windows[2][2])
        time_filter == build_time_of_day_filter_minutes(r.window[1], r.window[2],
                                                        r.window[3], r.window[4])
        dow_filter == build_day_of_week_filter(r.day_of_week)
        entity == entity_strategy(r.xd_segments, r.dims)
        legend == build_legend_join(r.legend_by, MAX_LEGEND_ENTITIES)
        before_where == build_where_clause(before_start_str, before_end_str,
                                           entity.xd_filter, entity.filter_where,
                                           time_filter, r.remove_anomalies)
        after_where == build_where_clause(after_start_str, after_end_str,
                                          entity.xd_filter, entity.filter_where,
                                          time_filter, r.remove_anomalies)
        query == FactQuery("TRAVEL_TIME_ANALYTICS",
                           FromAliases(TRUE, dow_filter, entity.filter_join, legend.join),
                           FromXdTables(TRUE, entity.filter_join, legend.join),
                           TRUE, dow_filter, entity.filter_join, <<>>,
                           legend.join, legend.field, <<before_where, after_where>>)
    IN  IF Len(r.xd_segments) > 0 /\ RaisesValueError(r.xd_segments)
        THEN Unanswered("before_after_aggregated", r, "value_error", "direct", FALSE)
        ELSE Answered("before_after_aggregated", r, entity.strategy,
                      entity.strategy = "join", entity.xd_filter, entity.filter_where,
                      time_filter, query, Execute(query, facts, {}), {})
             @@ [series |-> IF QueryCompiles(query) THEN union_all_series(query, facts)
                            ELSE <<>>]

(***************************************************************************)
(* routes/api_changepoints.py: /changepoints-table                         *)
(***************************************************************************)
SelectedSignalChoices == {<<>>, <<"s1">>, <<"s2">>, <<"s3">>}

SelectedXdChoices == {<<>>, <<1>>, <<1, 2>>, <<2, 3>>, <<NotANumber, 2>>}

\* changepoint_severity_threshold: not sent, or 5.
ThresholdChoices == {NoHour, 5}

ChangepointsTableRequests ==
    [dims : DimensionChoices, selected_signals : SelectedSignalChoices,
     selected_xds : SelectedXdChoices, threshold : ThresholdChoices, dates : DateWindows]

get_changepoints_table(r) ==
    LET start_date == normalize_date(r.dates[1])
        end_date == normalize_date(r.dates[2])
        severity_threshold == parse_positive_float(r.threshold,
                                                   CHANGEPOINT_SEVERITY_THRESHOLD)
        dimension == build_filtered_dim_components(r.dims.signal_ids, r.dims.maintained_by,
                                                   r.dims.approach, r.dims.valid_geometry)
        where_clause == assemble_where_clause(start_date, end_date, EmptySql,
                                              r.selected_signals, r.selected_xds,
                                              severity_threshold)
        query == FactQuery("CHANGEPOINTS", {"t", "xd"}, 2, FALSE, EmptySql,
                           <<Pred(0, QCol("xd", "XD"), "JOIN DIM_SIGNALS_XD", <<>>)>>,
                           dimension.where, EmptySql, "", <<where_clause>>)
    IN  Answered("changepoints_table", r,
                 IF Len(sanitize_string_list(r.selected_signals)) > 0 THEN "lookup"
                 ELSE IF Len(sanitize_int_list(r.selected_xds)) > 0 THEN "direct"
                 ELSE "none",
                 TRUE, EmptySql, EmptySql, EmptySql, query,
                 Execute(query, CHANGEPOINTS, {}), {})

(***************************************************************************)
(* routes/api_before_after.py: /before-after-summary (per signal) and      *)
(* /before-after-summary-xd (per segment)                                  *)
(***************************************************************************)
\* before and after date ranges: those of the aggregated comparison, and the
\* last day compared with the first.
SummaryComparisonWindows ==
    ComparisonWindows \cup { <<<<MaxDay, MaxDay>>, <<1, 1>>>> }

BeforeAfterSummaryRequests ==
    [level : {"signal", "xd"}, dims : {d \in DimensionChoices : d.maintained_by = "all"},
     window : MinuteWindows, day_of_week : DayOfWeekChoices,
     remove_anomalies : BOOLEAN, windows : SummaryComparisonWindows]

\* INNER JOIN DIM_SIGNALS_XD xd ON t.XD = xd.XD (and DIM_SIGNALS s ON
\* xd.ID = s.ID, which has a row for every signal)
SummaryDimensionJoin == <<Pred(0, QCol("xd", "XD"), "JOIN DIM_SIGNALS_XD", <<>>)>>

\* IS_ANOMALY = FALSE is put into the before clause only.
summary_where_clauses_AnomaliesKeptAfter(r, filter_where, time_filter) ==
    << build_where_clause(normalize_date(r.windows[1][1]), normalize_date(r.windows[1][2]),
                          EmptySql, filter_where, time_filter, r.remove_anomalies),
       build_where_clause(normalize_date(r.windows[2][1]), normalize_date(r.windows[2][2]),
                          EmptySql, filter_where, time_filter, FALSE) >>

\* before_where and after_where: build_where_clause of the route, which has
\* no xd_filter part, for the two date ranges.
summary_where_clauses(r, filter_where, time_filter) ==
    << build_where_clause(normalize_date(r.windows[1][1]), normalize_date(r.windows[1][2]),
                          EmptySql, filter_where, time_filter, r.remove_anomalies),
       build_where_clause(normalize_date(r.windows[2][1]), normalize_date(r.windows[2][2]),
                          EmptySql, filter_where, time_filter, r.remove_anomalies) >>

\* before_data / after_data: SELECT key, AVG(...) ... GROUP BY key, where the
\* key is s.ID or xd.XD.
summary_groups(level, query, where, facts) ==
    LET joined == Admitted(query, where, facts, {})
        key(j) == IF level = "signal" THEN j[2].ID ELSE j[2].XD
    IN  {[key |-> k, tti |-> AvgTravelTimeIndex({j \in joined : key(j) = k})] :
            k \in {key(j) : j \in joined}}

coalesce_Skipped(value, default) == value

\* COALESCE(value, default)
coalesce(value, default) == IF value = SqlNull THEN default ELSE value

\* One row of the final SELECT, from the columns of a joined pair; the
\* columns of a side without row are NULL.
summary_select_row(key, tti_before, tti_after) ==
    [key |-> key,
     TTI_BEFORE |-> coalesce(tti_before, 0),
     TTI_AFTER |-> coalesce(tti_after, 0),
     TTI_DIFF |-> coalesce(tti_after, 0) - coalesce(tti_before, 0)]

\* SELECT ... FROM before_data b FULL OUTER JOIN after_data a ON b.key = a.key
summary_select(before, after) ==
    {summary_select_row(p[1].key, p[1].tti, p[2].tti) :
        p \in {pair \in before \X after : pair[1].key = pair[2].key}}
    \cup {summary_select_row(b.key, b.tti, SqlNull) :
            b \in {g \in before : \A a \in after : a.key # g.key}}
    \cup {summary_select_row(a.key, SqlNull, a.tti) :
            a \in {g \in after : \A b \in before : b.key # g.key}}

get_before_after_summary(r, facts) ==
    LET time_filter == build_time_of_day_filter_minutes(r.window[1], r.window[2],
                                                        r.window[3], r.window[4])
        dow_filter == build_day_of_week_filter(r.day_of_week)
        filters == build_filter_joins_and_where(r.dims.signal_ids, r.dims.maintained_by,
                                                r.dims.approach, r.dims.valid_geometry)
        wheres == summary_where_clauses(r, filters.where, time_filter)
        query == FactQuery("TRAVEL_TIME_ANALYTICS",
                           {"t", "f", "xd", "s"} \cup (IF IsText(dow_filter) THEN {"d"} ELSE {}),
                           3, TRUE, dow_filter, SummaryDimensionJoin, <<>>, EmptySql, "",
                           wheres)
        before == summary_groups(r.level, query, wheres[1], facts)
        after == summary_groups(r.level, query, wheres[2], facts)
    IN  IF ~QueryCompiles(query)
        THEN [endpoint |-> "before_after_summary", req |-> r, status |-> "sql_error",
              before |-> {}, after |-> {}, table |-> {}]
        ELSE [endpoint |-> "before_after_summary", req |-> r, status |-> "ok",
              before |-> before, after |-> after, table |-> summary_select(before, after)]

(***************************************************************************)
(* Specification of part B: one request at a time is answered.             *)
(***************************************************************************)
TravelTimeAggregated ==
    /\ q = Idle
    /\ \E r \in TravelTimeAggregatedRequests : q' = get_travel_time_aggregated(r, db)
    /\ UNCHANGED db

TravelTimeData ==
    /\ q = Idle
    /\ \E r \in TravelTimeDataRequests : q' = get_travel_time_data(r, db)
    /\ UNCHANGED db

AnomalyAggregated ==
    /\ q = Idle
    /\ \E r \in AnomalyAggregatedRequests :
          \E pick \in LegendPicks(anomaly_aggregated_sql(r).legend_filter, db) :
              q' = get_anomaly_aggregated(r, db, pick)
    /\ UNCHANGED db

BeforeAfterAggregated ==
    /\ q = Idle
    /\ \E r \in BeforeAfterAggregatedRequests : q' = get_before_after_aggregated(r, db)
    /\ UNCHANGED db

BeforeAfterSummary ==
    /\ q = Idle
    /\ \E r \in BeforeAfterSummaryRequests : q' = get_before_after_summary(r, db)
    /\ UNCHANGED db

ChangepointsTable ==
    /\ q = Idle
    /\ \E r \in ChangepointsTableRequests : q' = get_changepoints_table(r)
    /\ UNCHANGED db

\* The response is sent; nothing of the request is kept.
Respond ==
    /\ q # Idle
    /\ q' = Idle
    /\ UNCHANGED db

InitQuery ==
    /\ InitA
    /\ InitRest
    /\ db \in FactTables
    /\ q = Idle

NextQuery ==
    \/ TravelTimeAggregated /\ UNCHANGED <<varsA, varsR, varsS>>
    \/ TravelTimeData /\ UNCHANGED <<varsA, varsR, varsS>>
    \/ AnomalyAggregated /\ UNCHANGED <<varsA, varsR, varsS>>
    \/ BeforeAfterAggregated /\ UNCHANGED <<varsA, varsR, varsS>>
    \/ BeforeAfterSummary /\ UNCHANGED <<varsA, varsR, varsS>>
    \/ ChangepointsTable /\ UNCHANGED <<varsA, varsR, varsS>>
    \/ Respond /\ UNCHANGED <<varsA, varsR, varsS>>

SpecQuery == InitQuery /\ [][NextQuery]_vars

(***************************************************************************)
(* Claims about the generated queries (specification SpecQuery).           *)
(***************************************************************************)
\* The routes that read xd_segments.
XdSegmentEndpoints ==
    {"travel_time_aggregated", "travel_time_data", "anomaly_aggregated",
     "before_after_aggregated"}

\* C6: every response rests on exactly one entity-selection strategy, and
\* whenever xd_segments is non-empty that strategy is the direct list: no
\* dimension query, join or predicate takes part in selecting the entities,
\* whatever signal_ids, maintained_by, approach and valid_geometry are.
C6_ExplicitListBypassesDimension ==
    (q.endpoint \in XdSegmentEndpoints /\ q.status # "value_error")
        => /\ ~(IsText(q.xd_filter) /\ (IsText(q.filter_join) \/ IsText(q.filter_where)))
           /\ Len(q.req.xd_segments) > 0
                 => /\ q.strategy = "direct"
                    /\ ~q.dimension
                    /\ ~IsText(q.filter_join)
                    /\ ~IsText(q.filter_where)
                    /\ q.status = "ok"
                    /\ q.xd_filter = build_xd_filter(q.req.xd_segments)

\* A dimension row has the attributes a request's dimension filter asks for.
DimensionAdmits(d, x) ==
    /\ Len(d.signal_ids) > 0 => x.ID \in Range(d.signal_ids)
    /\ d.approach # Absent => x.APPROACH = (d.approach = "true")
    /\ d.valid_geometry = "valid" => x.VALID_GEOMETRY
    /\ d.valid_geometry = "invalid" => ~x.VALID_GEOMETRY
    /\ d.maintained_by = "odot" => DIM_SIGNALS[x.ID]
    /\ d.maintained_by = "others" => ~DIM_SIGNALS[x.ID]

NoDimensionFilter == DimensionFilter(<<>>, "all", Absent, Absent)

\* The explicit list that says the same as the lookup's dimension predicate:
\* the segments of the located dimension rows with the signal, approach and
\* geometry asked for (/travel-time-aggregated does not read maintained_by).
LocatedSegments(d) ==
    SetToSortedSeq({x.XD : x \in {r \in DIM_SIGNALS_XD :
                                     /\ r.XD # SqlNull
                                     /\ r.LATITUDE # SqlNull
                                     /\ r.LONGITUDE # SqlNull
                                     /\ DimensionAdmits(
                                            [d EXCEPT !.maintained_by = "all"], r)}})

\* The explicit list that says the same as "the segments of these signals".
SegmentsOfSignals(signal_ids) ==
    SetToSortedSeq({x.XD : x \in {r \in DIM_SIGNALS_XD :
                                     r.XD # SqlNull /\ r.ID \in Range(signal_ids)}})

TimeAdmits(w, t) ==
    IF \/ NoHour \in Range(w)
       \/ NotANumber \in Range(w)
       \/ ~(w[1] \in 0..23 /\ w[2] \in 0..59 /\ w[3] \in 0..23 /\ w[4] \in 0..59)
       \/ w = <<0, 0, 23, 59>>
    THEN TRUE
    ELSE /\ w[1] * MinutesPerHour + w[2] <= t.TIME_15MIN
         /\ t.TIME_15MIN <= w[3] * MinutesPerHour + w[4]

\* The rows a request's days of the week admit: all of them when none is
\* sent, none is a day of the week, or one is not a number.
DayAdmits(day_of_week, t) ==
    IF \/ NotANumber \in Range(day_of_week)
       \/ Range(day_of_week) \cap (1..7) = {}
    THEN TRUE
    ELSE DAY_OF_WEEK_ISO(t.DATE_ONLY) \in Range(day_of_week)

\* The rows a request's entity selection admits: the listed segments, or the
\* segments of a dimension row with the attributes asked for, or all of them.
EntityAdmits(r, t) ==
    IF Len(r.xd_segments) > 0 THEN t.XD \in Range(r.xd_segments)
    ELSE IF DimensionFilterSet(r.dims)
    THEN \E x \in DIM_SIGNALS_XD : x.XD = t.XD /\ DimensionAdmits(r.dims, x)
    ELSE TRUE

\* The rows the legend grouping admits: those of a segment of the dimension
\* table whose legend value the legend filter kept.
LegendAdmits(t) ==
    q.legend_field # ""
        => \E s \in DIM_SIGNALS_XD :
              /\ s.XD = t.XD
              /\ q.endpoint = "anomaly_aggregated"
                    => /\ DimColumn(q.legend_field, s) \in q.pick
                       /\ ~IsNull(q.legend_field, DimColumn(q.legend_field, s))

\* The rows of the date range dates that the fragments of the request admit.
ExpectedRows(dates) ==
    {t.N : t \in {u \in db :
                    /\ dates[1] <= u.DATE_ONLY /\ u.DATE_ONLY <= dates[2]
                    /\ EntityAdmits(q.req, u)
                    /\ TimeAdmits(q.req.window, u)
                    /\ DayAdmits(q.req.day_of_week, u)
                    /\ LegendAdmits(u)
                    /\ q.endpoint = "anomaly_aggregated" => u.PREDICTION # SqlNull
                    /\ q.endpoint = "before_after_aggregated"
                          => /\ u.XD \in FREEFLOW
                             /\ q.req.remove_anomalies => ~u.IS_ANOMALY}}

LegendCap(endpoint) ==
    IF endpoint = "anomaly_aggregated" THEN MAX_ANOMALY_LEGEND_ENTITIES
    ELSE MAX_LEGEND_ENTITIES

CandidatePool ==
    LET sql == anomaly_aggregated_sql(q.req)
        where == sql.query.wheres[1]
        uncapped == [sql.query EXCEPT
                        !.wheres = <<SubSeq(where, 1, Len(where) - Len(sql.legend_filter))>>]
    IN  Execute(uncapped, db, {}).groups

SummaryRequests ==
    [dims : {d \in DimensionChoices : d.maintained_by = "all"},
     hours : HourWindows, dates : DateWindows]

\* A result set as the list collect() gives, in the warehouse's order.
RowOrder(rows) ==
    CHOOSE f \in [1..Cardinality(rows) -> rows] : Range(f) = rows

\* analytics_query of the route, for the XD values of the dimension rows.
travel_time_summary_query(r, xd_values) ==
    LET start_date_str == normalize_date(r.dates[1])
        end_date_str == normalize_date(r.dates[2])
        agg_table == get_aggregation_table(start_date_str, end_date_str)
        time_filter == build_time_of_day_filter(r.hours[1], r.hours[2])
        xd_filter == IF Len(r.dims.signal_ids) > 0 THEN build_xd_filter(xd_values)
                     ELSE EmptySql
        date_filter == IF agg_table = "TRAVEL_TIME_DAILY_AGG" THEN "DATE_ONLY" ELSE "TIMESTAMP"
        bound(d) == IF date_filter = "DATE_ONLY" THEN d ELSE d * MinutesPerDay
    IN  IF agg_table = "TRAVEL_TIME_ANALYTICS"
        THEN FactQuery(agg_table, {"t", "f"}, 2, TRUE, EmptySql, EmptySql, <<>>, EmptySql, "",
                 << Interpolate(<<
                       <<Pred(0, QCol("t", "TIMESTAMP"), ">=", <<bound(start_date_str)>>)>>,
                       <<Pred(1, QCol("t", "TIMESTAMP"), "<=", <<bound(end_date_str)>>)>>,
                       Qualify(xd_filter, "XD", "t"),
                       Qualify(time_filter, "HOUR_OF_DAY", "t") >>) >>)
        ELSE FactQuery(agg_table, {"mv", "f"}, 2, TRUE, EmptySql, EmptySql, <<>>, EmptySql, "",
                 << Interpolate(<<
                       <<Pred(0, Col(date_filter), ">=", <<bound(start_date_str)>>)>>,
                       <<Pred(1, Col(date_filter), "<=", <<bound(end_date_str)>>)>>,
                       Qualify(xd_filter, "XD", "mv"),
                       Qualify(time_filter, "HOUR_OF_DAY", "mv") >>) >>)

\* GROUP BY t.XD: one aggregate row for every segment with rows in the result.
SummaryAggregates(rows, facts) ==
    {[XD |-> xd, RECORD_COUNT |-> Cardinality({t \in facts : t.N \in rows /\ t.XD = xd})] :
        xd \in {t.XD : t \in {u \in facts : u.N \in rows}}}

\* The join that leaves out a dimension row without an aggregate row.
assemble_summary_InnerJoin(dim_result, analytics) ==
    SelectSeq([i \in DOMAIN dim_result |->
                  [ID |-> dim_result[i].ID, XD |-> dim_result[i].XD,
                   RECORD_COUNT |->
                      IF \E a \in analytics : a.XD = dim_result[i].XD
                      THEN (CHOOSE a \in analytics : a.XD = dim_result[i].XD).RECORD_COUNT
                      ELSE 0]],
              LAMBDA row : \E a \in analytics : a.XD = row.XD)

\* for row in dim_result: analytics = analytics_dict.get(xd, {}); every
\* column list gets one value, analytics.get('RECORD_COUNT', 0) among them.
assemble_summary(dim_result, analytics) ==
    [i \in DOMAIN dim_result |->
        [ID |-> dim_result[i].ID, XD |-> dim_result[i].XD,
         RECORD_COUNT |->
            IF \E a \in analytics : a.XD = dim_result[i].XD
            THEN (CHOOSE a \in analytics : a.XD = dim_result[i].XD).RECORD_COUNT
            ELSE 0]]

\* The fact fetch is issued before the dimension rows are there.
summary_receive_FactFirst(r) ==
    [pc |-> "fact_fetch", req |-> r, log |-> <<"fact_issued">>, dim_result |-> <<>>,
     analytics |-> {}, table |-> <<>>, status |-> "pending"]

\* The route up to session.sql(dim_query).collect().
summary_receive(r) ==
    [pc |-> "dim_fetch", req |-> r, log |-> <<"dim_issued">>, dim_result |-> <<>>,
     analytics |-> {}, table |-> <<>>, status |-> "pending"]

\* The route from the dimension rows to session.sql(analytics_query).collect(),
\* or to one of its two early exits.
summary_after_dimension(s, dim_result) ==
    LET xd_values == extract_xd_values(Range(dim_result))
        done == [s EXCEPT !.dim_result = dim_result, !.log = Append(@, "dim_done")]
    IN  IF Len(dim_result) = 0 THEN [done EXCEPT !.pc = "respond", !.status = "empty"]
        ELSE IF Len(xd_values) = 0 THEN [done EXCEPT !.pc = "respond", !.status = "empty"]
        ELSE [done EXCEPT !.pc = "fact_fetch", !.log = Append(@, "fact_issued")]

\* The route from the aggregate rows to the response.
summary_after_facts(s, result, facts) ==
    LET analytics == SummaryAggregates(result.rows[1], facts)
    IN  [s EXCEPT !.pc = "respond", !.status = "ok", !.log = Append(@, "fact_done"),
                  !.analytics = analytics,
                  !.table = assemble_summary(s.dim_result, analytics)]

SummaryReceive ==
    /\ sm.pc = "idle"
    /\ \E r \in SummaryRequests : sm' = summary_receive(r)
    /\ UNCHANGED db

SummaryDimReturns ==
    /\ sm.pc = "dim_fetch"
    /\ LET dim_query == build_xd_dimension_query(sm.req.dims.signal_ids, sm.req.dims.approach,
                                                 sm.req.dims.valid_geometry, FALSE)
       IN  sm' = summary_after_dimension(sm, RowOrder(CollectDimQuery(dim_query)))
    /\ UNCHANGED db

SummaryFactReturns ==
    /\ sm.pc = "fact_fetch"
    /\ LET query == travel_time_summary_query(sm.req, extract_xd_values(Range(sm.dim_result)))
           result == Execute(query, db, {})
       IN  IF result.status = "ok"
           THEN sm' = summary_after_facts(sm, result, db)
           ELSE sm' = [sm EXCEPT !.pc = "respond", !.status = "error",
                                 !.log = Append(@, "fact_failed")]
    /\ UNCHANGED db

\* session.sql(...).collect() raises: except Exception answers 500.
SummaryFetchFails ==
    /\ sm.pc \in {"dim_fetch", "fact_fetch"}
    /\ sm' = [sm EXCEPT !.pc = "respond", !.status = "error",
                        !.log = Append(@, IF sm.pc = "dim_fetch" THEN "dim_failed"
                                          ELSE "fact_failed")]
    /\ UNCHANGED db

SummaryRespond ==
    /\ sm.pc = "respond"
    /\ sm' = SummaryIdle
    /\ UNCHANGED db

InitSummary ==
    /\ InitA
    /\ db \in FactTables
    /\ q = Idle
    /\ InitRest

NextSummary ==
    \/ SummaryReceive /\ UNCHANGED <<varsA, q, geo, fn, varsS>>
    \/ SummaryDimReturns /\ UNCHANGED <<varsA, q, geo, fn, varsS>>
    \/ SummaryFactReturns /\ UNCHANGED <<varsA, q, geo, fn, varsS>>
    \/ SummaryFetchFails /\ UNCHANGED <<varsA, q, geo, fn, varsS>>
    \/ SummaryRespond /\ UNCHANGED <<varsA, q, geo, fn, varsS>>

SpecSummary == InitSummary /\ [][NextSummary]_vars

(***************************************************************************)
(* Claims about /travel-time-summary (specification SpecSummary).          *)
(***************************************************************************)
\* C12 as stated: the table the route answers has one row for every row of
\* the dimension result, whatever the aggregate rows are.
C12_OneRowPerDimensionRow ==
    (sm.pc = "respond" /\ sm.status \in {"ok", "empty"})
        => Len(sm.table) = Len(sm.dim_result)

\* C12, amended: whenever the route assembles a table, the table has exactly
\* one row for every dimension row, in order, with RECORD_COUNT 0 for a
\* segment without aggregate row; the route answers the empty table without
\* assembling only when no dimension row has a segment.
C12_AssembledRowPerDimensionRow ==
    /\ (sm.pc = "respond" /\ sm.status = "ok")
          => /\ Len(sm.table) = Len(sm.dim_result)
             /\ \A i \in DOMAIN sm.dim_result :
                   /\ sm.table[i].ID = sm.dim_result[i].ID
                   /\ sm.table[i].XD = sm.dim_result[i].XD
                   /\ (\A a \in sm.analytics : a.XD # sm.dim_result[i].XD)
                         => sm.table[i].RECORD_COUNT = 0
    /\ (sm.pc = "respond" /\ sm.status = "empty")
          => /\ sm.table = <<>>
             /\ \A i \in DOMAIN sm.dim_result : sm.dim_result[i].XD = SqlNull

\* A table has been assembled from several dimension rows and no aggregate
\* row at all.
C12_Witness ==
    /\ sm.pc = "respond"
    /\ sm.status = "ok"
    /\ sm.analytics = {}
    /\ Len(sm.dim_result) > 1
    /\ Len(sm.table) = Len(sm.dim_result)

\* C15: in a request that needs both fetches the dimension fetch is issued
\* and has returned before the fact fetch is issued: every fact fetch of the
\* log comes after a returned dimension fetch, and nothing before the
\* dimension fetch.
C15_DimensionBeforeFacts ==
    sm.pc # "idle"
        => /\ sm.log[1] = "dim_issued"
           /\ \A i \in DOMAIN sm.log :
                 sm.log[i] = "fact_issued"
                    => /\ i > 2
                       /\ sm.log[i - 1] = "dim_done"
                       /\ \A j \in 1..(i - 1) : sm.log[j] \notin {"fact_issued", "fact_done"}
           /\ sm.pc = "fact_fetch" => Len(sm.dim_result) > 0

\* Both fetches of a request have been issued and have returned.
C15_Witness ==
    /\ sm.pc = "respond"
    /\ sm.log = <<"dim_issued", "dim_done", "fact_issued", "fact_done">>

(***************************************************************************)
(* Claims about the before/after summaries (specification SpecQuery).      *)
(***************************************************************************)
\* C13: in the summary comparison every entity with rows in the before or
\* in the after window is in the result exactly once, a side without value
\* is 0 and not NULL, and TTI_DIFF is TTI_AFTER minus TTI_BEFORE.
C13_SummaryCoalescesAndSubtracts ==
    q.endpoint = "before_after_summary"
        => /\ q.status = "ok"
           /\ {row.key : row \in q.table} = {g.key : g \in q.before \cup q.after}
           /\ \A row \in q.table :
                 /\ Cardinality({other \in q.table : other.key = row.key}) = 1
                 /\ row.TTI_BEFORE # SqlNull /\ row.TTI_BEFORE >= 0
                 /\ row.TTI_AFTER # SqlNull /\ row.TTI_AFTER >= 0
                 /\ (\A g \in q.before : g.key # row.key) => row.TTI_BEFORE = 0
                 /\ (\A g \in q.after : g.key # row.key) => row.TTI_AFTER = 0
                 /\ \A g \in q.before :
                       (g.key = row.key /\ g.tti # SqlNull) => row.TTI_BEFORE = g.tti
                 /\ \A g \in q.after :
                       (g.key = row.key /\ g.tti # SqlNull) => row.TTI_AFTER = g.tti
                 /\ row.TTI_DIFF = row.TTI_AFTER - row.TTI_BEFORE

\* A summary has an entity with rows in the after window only, with a value
\* other than 0, and an entity with rows in both windows whose value in the
\* before window is NULL.
C13_Witness ==
    /\ q.endpoint = "before_after_summary"
    /\ q.status = "ok"
    /\ \E g \in q.after : g.tti > 0 /\ \A b \in q.before : b.key # g.key
    /\ \E g \in q.before : g.tti = SqlNull /\ \E a \in q.after : a.key = g.key /\ a.tti > 0

\* C21: the series of a comparison is the rows of the before SELECT, each
\* tagged Before, together with the rows of the after SELECT, each tagged
\* After, none lost and none merged, in the order of TIMESTAMP and, for
\* equal TIMESTAMP, of PERIOD.
C21_SeriesUnionOrdered ==
    (q.endpoint = "before_after_aggregated" /\ q.status = "ok")
        => LET periods(n) == {q.series[i].PERIOD : i \in {k \in DOMAIN q.series :
                                  \E t \in db : /\ t.N = n
                                                 /\ q.series[k].TIMESTAMP
                                                      = t.DATE_ONLY * MinutesPerDay + t.TIME_15MIN}}
           IN  /\ \A i \in DOMAIN q.series : q.series[i].PERIOD \in {"Before", "After"}
               /\ \A i, j \in DOMAIN q.series : i # j => q.series[i] # q.series[j]
               /\ \A n \in q.rows[1] : "Before" \in periods(n)
               /\ \A n \in q.rows[2] : "After" \in periods(n)
               /\ q.rows[1] = {} => \A i \in DOMAIN q.series : q.series[i].PERIOD = "After"
               /\ q.rows[2] = {} => \A i \in DOMAIN q.series : q.series[i].PERIOD = "Before"
               /\ \A i, j \in DOMAIN q.series :
                     i < j => \/ q.series[i].TIMESTAMP < q.series[j].TIMESTAMP
                              \/ /\ q.series[i].TIMESTAMP = q.series[j].TIMESTAMP
                                 /\ PeriodRank(q.series[i].PERIOD)
                                       <= PeriodRank(q.series[j].PERIOD)

\* A series has a timestamp with a row of either period, and a later one.
C21_Witness ==
    /\ q.endpoint = "before_after_aggregated"
    /\ q.status = "ok"
    /\ Len(q.series) >= 3
    /\ q.series[1].TIMESTAMP = q.series[2].TIMESTAMP
    /\ q.series[1].PERIOD = "After"
    /\ q.series[2].PERIOD = "Before"
    /\ \E i \in DOMAIN q.series : q.series[i].TIMESTAMP > q.series[2].TIMESTAMP

\* C14: a comparison whose before and after windows are the same date range
\* gives TTI_DIFF = 0 for every entity of the result, whatever the other
\* filters are.
C14_SameWindowZeroDelta ==
    (/\ q.endpoint = "before_after_summary"
     /\ q.req.windows[1] = q.req.windows[2])
        => /\ q.status = "ok"
           /\ \A row \in q.table : row.TTI_DIFF = 0

\* A comparison of a date range with itself has entities with a value other
\* than 0, with anomalies removed and rows that are anomalies in the table.
C14_Witness ==
    /\ q.endpoint = "before_after_summary"
    /\ q.status = "ok"
    /\ q.req.windows[1] = q.req.windows[2]
    /\ q.req.remove_anomalies
    /\ \E t \in db : t.IS_ANOMALY
    /\ \E row \in q.table : row.TTI_BEFORE > 0 /\ row.TTI_DIFF = 0

(***************************************************************************)
(* Part D: /xd-geometry, get_xd_geometry of api_travel_time.py.  The       *)
(* module-level _xd_geometry_cache is checked and filled without a lock,   *)
(* and the server answers every request in a thread of its own, so a       *)
(* thread can be anywhere in the handler while another one enters it.      *)
(***************************************************************************)
\* Requests answered over the life of the process, in the model.
MaxGeometryRequests == 4

\* config.py
DEBUG_DISABLE_SERVER_CACHE == FALSE

\* if not DEBUG_DISABLE_SERVER_CACHE and _xd_geometry_cache is not None
geometry_cache_hit(cache) == ~DEBUG_DISABLE_SERVER_CACHE /\ cache

\* The responses of the handler that are ready to be sent.
GeometryResponses == {"hit", "filled", "failed", "unavailable"}

\* A request arrives and the handler reads the cache.
GeoCheck(t) ==
    /\ geo.pc[t] = "idle"
    /\ geo.requests < MaxGeometryRequests
    /\ geo' = [geo EXCEPT !.pc[t] = IF geometry_cache_hit(geo.cache) THEN "hit" ELSE "connect",
                          !.requests = @ + 1]
    /\ UNCHANGED sm
    /\ UNCHANGED fn

\* get_snowflake_session returned a session and session.sql(query).collect()
\* is called.
GeoIssue(t) ==
    /\ geo.pc[t] = "connect"
    /\ geo' = [geo EXCEPT !.pc[t] = "fetch",
                          !.fetches = @ + 1,
                          !.stale = @ \/ geo.cache]
    /\ UNCHANGED sm
    /\ UNCHANGED fn

\* get_snowflake_session returned None: 503.
GeoNoSession(t) ==
    /\ geo.pc[t] = "connect"
    /\ geo' = [geo EXCEPT !.pc[t] = "unavailable"]
    /\ UNCHANGED sm
    /\ UNCHANGED fn

\* collect() returned the rows; the features are built from them.
GeoFetchReturns(t) ==
    /\ geo.pc[t] = "fetch"
    /\ geo' = [geo EXCEPT !.pc[t] = "fill"]
    /\ UNCHANGED sm
    /\ UNCHANGED fn

\* collect() raised: 500, the cache is left as it is.
GeoFetchFails(t) ==
    /\ geo.pc[t] = "fetch"
    /\ geo' = [geo EXCEPT !.pc[t] = "failed", !.failures = @ + 1]
    /\ UNCHANGED sm
    /\ UNCHANGED fn

\* _xd_geometry_cache = {"type": "FeatureCollection", "features": features}
GeoFill(t) ==
    /\ geo.pc[t] = "fill"
    /\ geo' = [geo EXCEPT !.pc[t] = "filled", !.cache = TRUE, !.writes = @ + 1]
    /\ UNCHANGED sm
    /\ UNCHANGED fn

\* The response is sent and the thread is free for the next request.
GeoRespond(t) ==
    /\ geo.pc[t] \in GeometryResponses
    /\ geo' = [geo EXCEPT !.pc[t] = "idle"]
    /\ UNCHANGED sm
    /\ UNCHANGED fn

InitGeometry == InitA /\ InitQuiet /\ InitRest

NextGeometry ==
    \/ \E t \in Threads : GeoCheck(t) /\ UNCHANGED <<varsA, varsQ, varsS>>
    \/ \E t \in Threads : GeoIssue(t) /\ UNCHANGED <<varsA, varsQ, varsS>>
    \/ \E t \in Threads : GeoNoSession(t) /\ UNCHANGED <<varsA, varsQ, varsS>>
    \/ \E t \in Threads : GeoFetchReturns(t) /\ UNCHANGED <<varsA, varsQ, varsS>>
    \/ \E t \in Threads : GeoFetchFails(t) /\ UNCHANGED <<varsA, varsQ, varsS>>
    \/ \E t \in Threads : GeoFill(t) /\ UNCHANGED <<varsA, varsQ, varsS>>
    \/ \E t \in Threads : GeoRespond(t) /\ UNCHANGED <<varsA, varsQ, varsS>>

SpecGeometry == InitGeometry /\ [][NextGeometry]_vars

\* C16: the cache is written by at most one request and, apart from
\* queries that raised, the geometry query is issued by at most one request,
\* concurrent first requests included; no query is issued once the cache
\* is populated.
C16_GeometryFetchedOnce ==
    /\ geo.writes <= 1
    /\ geo.fetches - geo.failures <= 1
    /\ ~geo.stale

(***************************************************************************)
(* Part E: the helpers of utils/query_utils.py called on their own, on     *)
(* every input of a bounded domain.                                        *)
(***************************************************************************)
\* The longest span of a date range, in days.
MaxSpanDays == 9

\* The longest day_of_week list.
MaxDayListLen == 2

\* start_date, end_date: a day by its number, or a text that is no date.
DateInputs == (1..(MaxSpanDays + 1)) \cup {NotADate}

\* start_hour, end_hour: not sent, not a number, or an integer, in range or not.
HourInputs == (-1..24) \cup {NoHour, NotANumber}

\* The elements of a day_of_week list: not a number, or an integer, an ISO
\* weekday or not.
DayInputs == (0..8) \cup {NotANumber}

\* day_of_week: None or [] (both the empty sequence), or a list.
DayListInputs == UNION {[1..n -> DayInputs] : n \in 0..MaxDayListLen}

\* get_aggregation_level(start_date, end_date) and get_aggregation_table(...)
CallAggregation ==
    /\ \E start_date \in DateInputs, end_date \in DateInputs :
          fn' = [op |-> "aggregation", start_date |-> start_date, end_date |-> end_date,
                 level |-> get_aggregation_level(start_date, end_date),
                 table |-> get_aggregation_table(start_date, end_date)]
    /\ UNCHANGED sm
    /\ UNCHANGED geo

\* build_time_of_day_filter(start_hour, end_hour)
CallTimeOfDay ==
    /\ \E start_hour \in HourInputs, end_hour \in HourInputs :
          fn' = [op |-> "time_of_day", start_hour |-> start_hour, end_hour |-> end_hour,
                 result |-> build_time_of_day_filter(start_hour, end_hour)]
    /\ UNCHANGED sm
    /\ UNCHANGED geo

\* build_day_of_week_filter(day_of_week)
CallDayOfWeek ==
    /\ \E day_of_week \in DayListInputs :
          fn' = [op |-> "day_of_week", day_of_week |-> day_of_week,
                 result |-> build_day_of_week_filter(day_of_week)]
    /\ UNCHANGED sm
    /\ UNCHANGED geo

InitPure == InitA /\ InitQuiet /\ InitRest

NextPure ==
    \/ CallAggregation /\ UNCHANGED <<varsA, varsQ, varsS>>
    \/ CallTimeOfDay /\ UNCHANGED <<varsA, varsQ, varsS>>
    \/ CallDayOfWeek /\ UNCHANGED <<varsA, varsQ, varsS>>

SpecPure == InitPure /\ [][NextPure]_vars

\* C18: for two dates that parse, with days = end_date - start_date in whole
\* days, get_aggregation_level and get_aggregation_table give the raw level
\* and table when days < 4, the hourly ones when 4 <= days <= 7 and the daily
\* ones when days > 7.
C18_TierBySpan ==
    (/\ fn.op = "aggregation"
     /\ fn.start_date # NotADate
     /\ fn.end_date # NotADate)
        => LET days == fn.end_date - fn.start_date
           IN  /\ days < 4 => fn.level = "none" /\ fn.table = "TRAVEL_TIME_ANALYTICS"
               /\ (4 <= days /\ days <= 7)
                     => fn.level = "hourly" /\ fn.table = "TRAVEL_TIME_HOURLY_AGG"
               /\ days > 7 => fn.level = "daily" /\ fn.table = "TRAVEL_TIME_DAILY_AGG"

\* A range of exactly 4 days is at the hourly level.
C18_Witness ==
    /\ fn.op = "aggregation"
    /\ fn.start_date # NotADate
    /\ fn.end_date - fn.start_date = 4
    /\ fn.level = "hourly"

\* C22: when the start date or the end date does not parse, both selectors
\* return the raw tier ("none", TRAVEL_TIME_ANALYTICS); they return a value,
\* no exception leaves them.
C22_UnparsedDateIsRaw ==
    (/\ fn.op = "aggregation"
     /\ NotADate \in {fn.start_date, fn.end_date})
        => /\ fn.level = "none"
           /\ fn.table = "TRAVEL_TIME_ANALYTICS"

\* The selectors were called with a start date that is no date and the
\* last day as end date.
C22_Witness ==
    /\ fn.op = "aggregation"
    /\ fn.start_date = NotADate
    /\ fn.end_date = MaxSpanDays + 1
    /\ fn.level = "none"

\* The WHERE clause of a route with the time-of-day fragment interpolated
\* after the date predicates.
ComposedWithTimeFilter(time_filter) ==
    <<Pred(0, Col("DATE_ONLY"), "BETWEEN", <<1, 1>>)>> \o time_filter

\* C19: the window of the whole day, hours 0 to 23, gives no fragment, so
\* that the composed predicate is the one composed when no window is sent;
\* every other window of hours within 0..23 gives one predicate that bounds
\* TIME_15MIN from the start hour's first minute to the end hour's last.
C19_WholeDayNoFragment ==
    (/\ fn.op = "time_of_day"
     /\ fn.start_hour \in 0..23
     /\ fn.end_hour \in 0..23)
        => IF fn.start_hour = 0 /\ fn.end_hour = 23
           THEN /\ fn.result = EmptySql
                /\ ComposedWithTimeFilter(fn.result)
                      = ComposedWithTimeFilter(build_time_of_day_filter(NoHour, NoHour))
           ELSE /\ Len(fn.result) = 1
                /\ fn.result[1].lead = 1
                /\ fn.result[1].col = Col("TIME_15MIN")
                /\ fn.result[1].op = "BETWEEN"
                /\ fn.result[1].arg = <<fn.start_hour * MinutesPerHour,
                                        fn.end_hour * MinutesPerHour + (MinutesPerHour - 1)>>

\* The helper was called with the whole day.
C19_Witness ==
    /\ fn.op = "time_of_day"
    /\ fn.start_hour = 0
    /\ fn.end_hour = 23
    /\ fn.result = EmptySql

\* C20 as stated: build_day_of_week_filter returns the DIM_DATE join with
\* the IN predicate whenever the list is not empty, and the empty fragment
\* only when no days are given.
C20_JoinWheneverNonEmpty ==
    fn.op = "day_of_week"
        => (Len(fn.day_of_week) > 0 <=> IsText(fn.result))

\* C20 amended: build_day_of_week_filter returns the DIM_DATE join with an
\* IN predicate over the ISO weekdays (1..7) of the list, in the list's
\* order, whenever every element is a number and at least one is an ISO
\* weekday; it returns the empty fragment when the list is empty, when an
\* element is not a number, or when no element is an ISO weekday.
C20_JoinOverValidDays ==
    fn.op = "day_of_week"
        => LET kept == SelectSeq(fn.day_of_week, LAMBDA d : d \in 1..7)
           IN  IF NotANumber \notin Range(fn.day_of_week) /\ Len(kept) > 0
               THEN /\ Len(fn.result) = 1
                    /\ fn.result[1].op = "JOIN DIM_DATE"
                    /\ fn.result[1].col = QCol("d", "DAY_OF_WEEK_ISO")
                    /\ fn.result[1].arg = kept
               ELSE fn.result = EmptySql

\* The helper was called with a list of a weekday and a number that is none,
\* and joined on the weekday alone.
C20_Witness ==
    /\ fn.op = "day_of_week"
    /\ Len(fn.day_of_week) = 2
    /\ \E i \in 1..2 : fn.day_of_week[i] \notin 1..7
    /\ Len(fn.result) = 1
    /\ Len(fn.result[1].arg) = 1

(***************************************************************************)
(* Part F: services/subscription_store.py, the SQLite store of login       *)
(* tokens, sessions and subscriptions.  Every function runs its statements *)
(* inside `with _db_cursor()`, which holds the process-wide _DB_LOCK from  *)
(* before the first statement until after the commit; the functions that   *)
(* read a row and then write are modelled statement by statement.          *)
(***************************************************************************)
\* LOGIN_TOKEN_TTL_MINUTES, in readings of the clock.
LOGIN_TOKEN_TTL == 1

\* create_session(email, ttl_days=1), in readings of the clock.
SessionTtl == 1

\* expires_at = None: the session does not expire.
NoExpiry == -1

\* _DB_LOCK is not taken: the calls do not exclude each other.
lock_free_Unlocked(lock) == TRUE

\* with _DB_LOCK: the lock can be taken.
lock_free(lock) == lock = "free"

\* The frame of a thread whose call has returned ret.
StoreReturns(t, op, arg, ret) ==
    [pc |-> "done", op |-> op, arg |-> arg, now |-> 0, ret |-> ret]

\* Time passes.
StoreTick ==
    /\ store.clock < MaxStoreClock
    /\ store' = [store EXCEPT !.clock = @ + 1]
    /\ UNCHANGED <<disp, rl>>

\* store_login_token(email, token): INSERT OR REPLACE, with the default
\* expires_at, as request_login_link calls it.
StoreLoginToken(t, email, token) ==
    /\ store.th[t].pc = "idle"
    /\ lock_free(store.lock)
    /\ LET expiry == store.clock + LOGIN_TOKEN_TTL
       IN  store' = [store EXCEPT
                        !.login_tokens[token] =
                            [email |-> normalize_email(email), expires_at |-> expiry,
                             used |-> FALSE],
                        !.exchanged[token] = 0,
                        !.th[t] = StoreReturns(t, "store_login_token", token, "")]
    /\ UNCHANGED <<disp, rl>>

\* consume_login_token(token) is entered: now = _utcnow()
ConsumeCall(t, token) ==
    /\ store.th[t].pc = "idle"
    /\ store' = [store EXCEPT
                    !.th[t] = [pc |-> "lock", op |-> "consume_login_token",
                               arg |-> token, now |-> store.clock, ret |-> ""]]
    /\ UNCHANGED <<disp, rl>>

\* The outcome of the SELECT and the tests on its row: return None
\* ("none"), delete the expired token and return None ("delete"), or go on
\* to the UPDATE ("update").
consume_select(row, now) ==
    IF row = NoRow THEN "none"
    ELSE IF row.used THEN "none"
    ELSE IF row.expires_at < now THEN "delete"
    ELSE "update"

\* with _db_cursor(): SELECT email, expires_at, used ... and the returns
\* before the UPDATE.
ConsumeSelect(t) ==
    /\ store.th[t].pc = "lock"
    /\ store.th[t].op = "consume_login_token"
    /\ lock_free(store.lock)
    /\ LET token == store.th[t].arg
           outcome == consume_select(store.login_tokens[token], store.th[t].now)
       IN  CASE outcome = "none" ->
                  store' = [store EXCEPT
                               !.th[t] = StoreReturns(t, "consume_login_token", token, "")]
             [] outcome = "delete" ->
                  store' = [store EXCEPT
                               !.login_tokens[token] = NoRow,
                               !.th[t] = StoreReturns(t, "consume_login_token", token, "")]
             [] outcome = "update" ->
                  store' = [store EXCEPT
                               !.lock = t,
                               !.th[t].pc = "update",
                               !.th[t].ret = store.login_tokens[token].email]
    /\ UNCHANGED <<disp, rl>>

\* UPDATE login_tokens SET used = 1 ...; return row["email"]; commit and
\* release of the lock.
ConsumeUpdate(t) ==
    /\ store.th[t].pc = "update"
    /\ LET token == store.th[t].arg
       IN  store' = [store EXCEPT
                        !.lock = "free",
                        !.login_tokens[token] =
                            IF @ = NoRow THEN @ ELSE [@ EXCEPT !.used = TRUE],
                        !.exchanged[token] = @ + 1,
                        !.th[t] = StoreReturns(t, "consume_login_token", token,
                                               store.th[t].ret)]
    /\ UNCHANGED <<disp, rl>>

\* create_session(email, ttl_days): a new token, INSERT OR REPLACE.
CreateSession(t, email, expires) ==
    /\ store.th[t].pc = "idle"
    /\ lock_free(store.lock)
    /\ \E k \in 1..MaxStoreSessions :
          /\ store.sessions[k] = NoRow
          /\ \A j \in 1..(k - 1) : store.sessions[j] # NoRow
          /\ store' = [store EXCEPT
                          !.sessions[k] =
                              [email |-> normalize_email(email),
                               expires_at |-> IF expires THEN store.clock + SessionTtl
                                              ELSE NoExpiry],
                          !.th[t] = StoreReturns(t, "create_session", email, "")]
    /\ UNCHANGED <<disp, rl>>

\* get_session(token) on a table of sessions: the email of the row it
\* returns ("" for None), and whether it deletes the row as expired.
get_session(session_rows, token, now) ==
    LET row == session_rows[token]
    IN  IF row = NoRow THEN [ret |-> "", delete |-> FALSE]
        ELSE IF row.expires_at # NoExpiry /\ row.expires_at < now
        THEN [ret |-> "", delete |-> TRUE]
        ELSE [ret |-> row.email, delete |-> FALSE]

GetSession(t, token) ==
    /\ store.th[t].pc = "idle"
    /\ lock_free(store.lock)
    /\ LET got == get_session(store.sessions, token, store.clock)
       IN  store' = [store EXCEPT
                        !.sessions[token] = IF got.delete THEN NoRow ELSE @,
                        !.th[t] = StoreReturns(t, "get_session", "", got.ret)]
    /\ UNCHANGED <<disp, rl>>

\* upsert_subscription(email, settings)
UpsertSubscription(t, email) ==
    /\ store.th[t].pc = "idle"
    /\ lock_free(store.lock)
    /\ store' = [store EXCEPT
                    !.subscriptions = @ \cup {normalize_email(email)},
                    !.th[t] = StoreReturns(t, "upsert_subscription", email, "")]
    /\ UNCHANGED <<disp, rl>>

\* get_subscription(email) on a table of subscriptions: the row's email,
\* "" for None.
get_subscription(subscriptions, email) ==
    IF normalize_email(email) \in subscriptions THEN normalize_email(email) ELSE ""

\* DELETE FROM sessions WHERE email = :email, left out.
delete_subscription_SessionsKept(subscriptions, session_rows, email) ==
    [subscriptions |-> subscriptions \ {normalize_email(email)}, sessions |-> session_rows]

\* delete_subscription(email): the two DELETE statements of one transaction.
delete_subscription(subscriptions, session_rows, email) ==
    [subscriptions |-> subscriptions \ {normalize_email(email)},
     sessions |-> [k \in DOMAIN session_rows |->
                      IF session_rows[k] # NoRow /\ session_rows[k].email = normalize_email(email)
                      THEN NoRow ELSE session_rows[k]]]

DeleteSubscription(t, email) ==
    /\ store.th[t].pc = "idle"
    /\ lock_free(store.lock)
    /\ LET after == delete_subscription(store.subscriptions, store.sessions, email)
       IN  store' = [store EXCEPT
                        !.subscriptions = after.subscriptions,
                        !.sessions = after.sessions,
                        !.th[t] = StoreReturns(t, "delete_subscription", email, "")]
    /\ UNCHANGED <<disp, rl>>

\* cleanup_expired_artifacts() is entered: now = _utcnow()
CleanupCall(t) ==
    /\ store.th[t].pc = "idle"
    /\ store' = [store EXCEPT
                    !.th[t] = [pc |-> "lock", op |-> "cleanup_expired_artifacts",
                               arg |-> "", now |-> store.clock, ret |-> ""]]
    /\ UNCHANGED <<disp, rl>>

\* DELETE FROM login_tokens WHERE expires_at < :now, without OR used = 1.
cleanup_login_tokens_UsedKept(login_tokens, now) ==
    [k \in DOMAIN login_tokens |->
        IF login_tokens[k] # NoRow /\ login_tokens[k].expires_at < now
        THEN NoRow ELSE login_tokens[k]]

\* DELETE FROM login_tokens WHERE expires_at < :now OR used = 1
cleanup_login_tokens(login_tokens, now) ==
    [k \in DOMAIN login_tokens |->
        IF /\ login_tokens[k] # NoRow
           /\ (login_tokens[k].expires_at < now \/ login_tokens[k].used)
        THEN NoRow ELSE login_tokens[k]]

\* DELETE FROM sessions WHERE expires_at < :now; NULL is not less than now.
cleanup_sessions(session_rows, now) ==
    [k \in DOMAIN session_rows |->
        IF /\ session_rows[k] # NoRow
           /\ session_rows[k].expires_at # NoExpiry
           /\ session_rows[k].expires_at < now
        THEN NoRow ELSE session_rows[k]]

\* The two DELETE statements of cleanup_expired_artifacts, under the lock.
CleanupRun(t) ==
    /\ store.th[t].pc = "lock"
    /\ store.th[t].op = "cleanup_expired_artifacts"
    /\ lock_free(store.lock)
    /\ store' = [store EXCEPT
                    !.login_tokens = cleanup_login_tokens(@, store.th[t].now),
                    !.sessions = cleanup_sessions(@, store.th[t].now),
                    !.th[t] = StoreReturns(t, "cleanup_expired_artifacts", "", "")]
    /\ UNCHANGED <<disp, rl>>

\* The caller has the return value; the thread is free for the next call.
StoreReturn(t) ==
    /\ store.th[t].pc = "done"
    /\ store' = [store EXCEPT !.th[t] = StoreFrameIdle]
    /\ UNCHANGED <<disp, rl>>

InitStore == InitA /\ InitQuiet /\ InitRest

\* The login tokens: request_login_link, verify_magic_link and the cleanup
\* of the daily run, on threads of one process.
NextTokens ==
    \/ StoreTick /\ UNCHANGED <<varsA, varsQ, varsR>>
    \/ \E t \in Threads, e \in RawEmails, k \in LoginTokens : StoreLoginToken(t, e, k) /\ UNCHANGED <<varsA, varsQ, varsR>>
    \/ \E t \in Threads, k \in LoginTokens : ConsumeCall(t, k) /\ UNCHANGED <<varsA, varsQ, varsR>>
    \/ \E t \in Threads : ConsumeSelect(t) /\ UNCHANGED <<varsA, varsQ, varsR>>
    \/ \E t \in Threads : ConsumeUpdate(t) /\ UNCHANGED <<varsA, varsQ, varsR>>
    \/ \E t \in Threads : CleanupCall(t) /\ UNCHANGED <<varsA, varsQ, varsR>>
    \/ \E t \in Threads : CleanupRun(t) /\ UNCHANGED <<varsA, varsQ, varsR>>
    \/ \E t \in Threads : StoreReturn(t) /\ UNCHANGED <<varsA, varsQ, varsR>>

SpecTokens == InitStore /\ [][NextTokens]_vars

\* The sessions and the subscriptions: the routes of api_auth and
\* api_subscriptions and the cleanup of the daily run.
NextAccounts ==
    \/ StoreTick /\ UNCHANGED <<varsA, varsQ, varsR>>
    \/ \E t \in Threads, e \in RawEmails, expires \in BOOLEAN : CreateSession(t, e, expires) /\ UNCHANGED <<varsA, varsQ, varsR>>
    \/ \E t \in Threads, k \in 1..MaxStoreSessions : GetSession(t, k) /\ UNCHANGED <<varsA, varsQ, varsR>>
    \/ \E t \in Threads, e \in RawEmails : UpsertSubscription(t, e) /\ UNCHANGED <<varsA, varsQ, varsR>>
    \/ \E t \in Threads, e \in RawEmails : DeleteSubscription(t, e) /\ UNCHANGED <<varsA, varsQ, varsR>>
    \/ \E t \in Threads : CleanupCall(t) /\ UNCHANGED <<varsA, varsQ, varsR>>
    \/ \E t \in Threads : CleanupRun(t) /\ UNCHANGED <<varsA, varsQ, varsR>>
    \/ \E t \in Threads : StoreReturn(t) /\ UNCHANGED <<varsA, varsQ, varsR>>

SpecAccounts == InitStore /\ [][NextAccounts]_vars

\* The readings of _utcnow() a call can take.
StoreClocks == 0..MaxStoreClock

\* C23: since a token was stored, at most one call of consume_login_token
\* has returned its email, no second call is between its SELECT and its
\* UPDATE, and once the email has been returned the SELECT of every later
\* call, at any time, leads to the return of None.
C23_TokenExchangedOnce ==
    \A k \in LoginTokens :
        /\ store.exchanged[k] <= 1
        /\ store.exchanged[k] = 1 =>
              /\ \A now \in StoreClocks : consume_select(store.login_tokens[k], now) = "none"
              /\ \A t \in Threads : ~(store.th[t].pc = "update" /\ store.th[t].arg = k)
        /\ Cardinality({t \in Threads : store.th[t].pc = "update" /\ store.th[t].arg = k}) <= 1

\* Two concurrent consumers of the token k1 have returned: one with the
\* email, the other with None.
C23_Witness ==
    /\ store.exchanged["k1"] = 1
    /\ store.th["t1"] = StoreReturns("t1", "consume_login_token", "k1", "a@x")
    /\ store.th["t2"] = StoreReturns("t2", "consume_login_token", "k1", "")

\* C24: the step of delete_subscription(email) leaves no subscription and
\* no session of that email (get_subscription and get_session return None
\* for them) and leaves the subscriptions and sessions of every other email
\* as they were.
C24_DeleteSubscriptionScoped ==
    [][\A t \in Threads, e \in RawEmails :
          (store.th[t].pc = "idle" /\ store'.th[t] = StoreReturns(t, "delete_subscription", e, ""))
          => /\ get_subscription(store'.subscriptions, e) = ""
             /\ \A k \in 1..MaxStoreSessions :
                   /\ get_session(store'.sessions, k, store'.clock).ret # normalize_email(e)
                   /\ store'.sessions[k] = NoRow \/ store'.sessions[k].email # normalize_email(e)
                   /\ store.sessions[k].email # normalize_email(e) => store'.sessions[k] = store.sessions[k]
             /\ store'.subscriptions \ {normalize_email(e)} = store.subscriptions \ {normalize_email(e)}]_vars

\* delete_subscription("A@x ") has returned: the first session, which was
\* drawn before the second, is gone, and the subscription and the session
\* of b@x are there.
C24_Witness ==
    /\ \E t \in Threads : store.th[t] = StoreReturns(t, "delete_subscription", "A@x ", "")
    /\ store.subscriptions = {"b@x"}
    /\ store.sessions[1] = NoRow
    /\ store.sessions[2] = [email |-> "b@x", expires_at |-> NoExpiry]

\* C25: the step of cleanup_expired_artifacts leaves no login token that is
\* used or that had expired when the cleanup read the clock, and for every
\* token that was used or expired, by that reading or by the clock of the
\* moment, a call of consume_login_token does not reach the return of the
\* email.
C25_CleanupLeavesNoSpentToken ==
    [][\A t \in Threads :
          (/\ store.th[t].pc = "lock"
           /\ store.th[t].op = "cleanup_expired_artifacts"
           /\ store'.th[t].pc = "done")
          => \A k \in LoginTokens :
                /\ store'.login_tokens[k] = NoRow
                   \/ (~store'.login_tokens[k].used
                       /\ ~(store'.login_tokens[k].expires_at < store.th[t].now))
                /\ (store.login_tokens[k] # NoRow
                    /\ (store.login_tokens[k].used
                        \/ store.login_tokens[k].expires_at < store.th[t].now))
                   => \A now \in StoreClocks :
                         consume_select(store'.login_tokens[k], now) = "none"
                /\ (store'.login_tokens[k] # NoRow
                    /\ store'.login_tokens[k].expires_at < store'.clock)
                   => consume_select(store'.login_tokens[k], store'.clock) # "update"]_vars

\* The cleanup has returned; the token k1, whose email was exchanged, has
\* no row any more, and the unused, unexpired token k2 has kept its row.
C25_Witness ==
    /\ \E t \in Threads : store.th[t] = StoreReturns(t, "cleanup_expired_artifacts", "", "")
    /\ store.exchanged["k1"] = 1
    /\ store.login_tokens["k1"] = NoRow
    /\ store.login_tokens["k2"] # NoRow
    /\ ~store.login_tokens["k2"].used

(***************************************************************************)
(* Part G: services/report_service.py run_daily_dispatch and the           *)
(* dispatch_log functions of services/subscription_store.py.  The          *)
(* scheduler job and any other caller run run_daily_dispatch on threads;   *)
(* each statement on dispatch_log is one step, as SQLite and _DB_LOCK make *)
(* it.                                                                     *)
(***************************************************************************)
\* _PENDING_RECLAIM_GRACE, in readings of the clock.
PENDING_RECLAIM_GRACE == 1

\* _resolve_report_date(filters) with the end date of
\* _default_monitoring_window(): the day of the clock.
report_date(now) == now \div TicksPerDay

\* list_subscriptions(): SELECT ... ORDER BY email
list_subscriptions(subscriptions) ==
    SelectSeq(DispatchEmails, LAMBDA e : e \in subscriptions)

\* The case in which claim_daily_dispatch is documented to return None: the
\* row of the key is sent or skipped, or pending and claimed less than the
\* grace ago.
already_dispatched(row, now) ==
    /\ row # NoLog
    /\ \/ row.status \in {"sent", "skipped"}
       \/ row.status = "pending" /\ now - row.claimed_at < PENDING_RECLAIM_GRACE

\* dispatch_log without UNIQUE(email, report_date): the INSERT succeeds
\* whatever rows there are, and the new row is the one of the key.
claim_daily_dispatch_NoUnique(log, next_id, key, now) ==
    [raises |-> "", id |-> next_id,
     log |-> [log EXCEPT ![key] = [id |-> next_id, status |-> "pending", claimed_at |-> now]]]

\* claim_daily_dispatch(email, report_date), as what it raises, the id it
\* returns (0 for None) and the table it leaves: the INSERT of a pending row
\* returns lastrowid; when UNIQUE(email, report_date) rejects it, the
\* handler of sqlite3.IntegrityError executes
\*   SELECT id, status, claimed_at, completed_at WHERE email = ... AND ...
\* which names no table: SQLite raises OperationalError (no such column:
\* id), the statements after it are not reached, nothing is committed.
claim_daily_dispatch(log, next_id, key, now) ==
    IF log[key] = NoLog
    THEN [raises |-> "", id |-> next_id,
          log |-> [log EXCEPT ![key] = [id |-> next_id, status |-> "pending", claimed_at |-> now]]]
    ELSE [raises |-> "OperationalError", id |-> 0, log |-> log]

\* finalize_daily_dispatch without its UPDATE.
finalize_daily_dispatch_NoUpdate(log, dispatch_id, status) == log

\* finalize_daily_dispatch(dispatch_id, status): UPDATE dispatch_log SET
\* status = :status ... WHERE id = :id
finalize_daily_dispatch(log, dispatch_id, status) ==
    [key \in DOMAIN log |->
        IF log[key] # NoLog /\ log[key].id = dispatch_id
        THEN [log[key] EXCEPT !.status = status] ELSE log[key]]

\* What generate_and_send_report does: it sends the email and returns
\* sent = True, returns sent = False (no data, or the PDF saved for
\* debugging), or raises.
ReportOutcomes == {"sent", "not_sent", "raises"}

\* The status run_daily_dispatch finalizes with.
finalize_status(outcome) ==
    IF outcome = "raises" THEN "failed"
    ELSE IF outcome = "sent" THEN "sent" ELSE "skipped"

\* The frame of a run that goes to its next subscription, or returns.
RunAdvance(frame) ==
    [RunIdle EXCEPT !.pc = IF Len(frame.todo) > 1 THEN "claim" ELSE "done",
                    !.todo = Tail(frame.todo)]

\* run_daily_dispatch() is entered: cleanup_expired_artifacts(), then
\* list_subscriptions().
RunStart(t) ==
    /\ disp.th[t].pc = "idle"
    /\ lock_free(store.lock)
    /\ store' = [store EXCEPT
                    !.login_tokens = cleanup_login_tokens(@, store.clock),
                    !.sessions = cleanup_sessions(@, store.clock)]
    /\ LET todo == list_subscriptions(store.subscriptions)
       IN  disp' = [disp EXCEPT
                       !.th[t] = [RunIdle EXCEPT !.pc = IF todo = <<>> THEN "done" ELSE "claim",
                                                 !.todo = todo]]
    /\ UNCHANGED rl

\* dispatch_id = claim_daily_dispatch(email, report_date); the call is
\* outside the try of the loop, so what it raises ends the run.
RunClaim(t) ==
    /\ disp.th[t].pc = "claim"
    /\ LET frame == disp.th[t]
           now == store.clock
           key == <<Head(frame.todo), report_date(now)>>
           claimed == claim_daily_dispatch(disp.log, disp.next_id, key, now)
           dup == already_dispatched(disp.log[key], now)
       IN  IF claimed.raises # ""
           THEN disp' = [disp EXCEPT
                            !.th[t] = [RunIdle EXCEPT !.pc = "aborted", !.todo = frame.todo,
                                                      !.date = key[2],
                                                      !.ret = claimed.raises, !.dup = dup]]
           ELSE /\ claimed.id \in DispatchIds
                /\ disp' = [disp EXCEPT
                               !.log = claimed.log,
                               !.next_id = @ + 1,
                               !.th[t] = [frame EXCEPT !.pc = "generate", !.date = key[2],
                                                       !.id = claimed.id, !.ret = "id",
                                                       !.dup = dup]]
    /\ UNCHANGED <<store, rl>>

\* result = generate_and_send_report(email, filters, ...) inside the try.
RunGenerate(t, outcome) ==
    /\ disp.th[t].pc = "generate"
    /\ LET frame == disp.th[t]
           key == <<Head(frame.todo), frame.date>>
       IN  disp' = [disp EXCEPT
                       !.sent[key] = IF outcome = "sent" THEN @ + 1 ELSE @,
                       !.th[t] = [frame EXCEPT !.pc = "finalize",
                                               !.status = finalize_status(outcome)]]
    /\ UNCHANGED <<store, rl>>

\* finalize_daily_dispatch(dispatch_id, status, ...) and the next turn of
\* the loop.
RunFinalize(t) ==
    /\ disp.th[t].pc = "finalize"
    /\ LET frame == disp.th[t]
       IN  disp' = [disp EXCEPT
                       !.log = finalize_daily_dispatch(@, frame.id, frame.status),
                       !.finalizes[frame.id] = @ + 1,
                       !.th[t] = RunAdvance(frame)]
    /\ UNCHANGED <<store, rl>>

\* run_daily_dispatch returns its results, or the job ends with the
\* exception of claim_daily_dispatch.
RunReturn(t) ==
    /\ disp.th[t].pc \in {"done", "aborted"}
    /\ disp' = [disp EXCEPT !.th[t] = RunIdle]
    /\ UNCHANGED <<store, rl>>

\* The clock of the runs is the clock of the store.
DispatchTick ==
    /\ store.clock < MaxStoreClock
    /\ store' = [store EXCEPT !.clock = @ + 1]
    /\ UNCHANGED <<disp, rl>>

\* Some subscriptions exist when the runs start.
InitDispatch ==
    /\ InitA /\ InitQuiet
    /\ sm = SummaryIdle /\ geo = GeometryIdle /\ fn = NoCall
    /\ \E subs \in SUBSET {"a@x", "b@x"} :
          subs # {} /\ store = [StoreEmpty EXCEPT !.subscriptions = subs]
    /\ disp = DispatchIdle
    /\ rl = LimiterIdle

NextDispatch ==
    \/ DispatchTick /\ UNCHANGED <<varsA, varsQ, varsR>>
    \/ \E t \in Threads : RunStart(t) /\ UNCHANGED <<varsA, varsQ, varsR>>
    \/ \E t \in Threads : RunClaim(t) /\ UNCHANGED <<varsA, varsQ, varsR>>
    \/ \E t \in Threads, outcome \in ReportOutcomes : RunGenerate(t, outcome) /\ UNCHANGED <<varsA, varsQ, varsR>>
    \/ \E t \in Threads : RunFinalize(t) /\ UNCHANGED <<varsA, varsQ, varsR>>
    \/ \E t \in Threads : RunReturn(t) /\ UNCHANGED <<varsA, varsQ, varsR>>

SpecDispatch == InitDispatch /\ [][NextDispatch]_vars

\* The threads whose run holds the claim of a row: between the return of
\* claim_daily_dispatch and the return of finalize_daily_dispatch.
ClaimHolders(id) ==
    {t \in Threads : disp.th[t].pc \in {"generate", "finalize"} /\ disp.th[t].id = id}

\* C26: a call of claim_daily_dispatch for an email and report date whose
\* report another worker has processed (sent or skipped), or claimed less
\* than 30 minutes ago without finishing, returns None; a call that finds no
\* row of the key returns the id of the row it inserted.
C26_LaterClaimantGetsNone ==
    \A t \in Threads :
        disp.th[t].pc \in {"generate", "aborted"} =>
            IF disp.th[t].dup
            THEN disp.th[t].ret = "None"
            ELSE disp.th[t].ret = "id" =>
                    disp.log[<<Head(disp.th[t].todo), disp.th[t].date>>].id = disp.th[t].id

\* C27: for every subscription email and report date, email_service's
\* send_email has been called at most once by all the runs together.
C27_ReportSentAtMostOnce ==
    \A key \in DispatchKeys : disp.sent[key] <= 1

\* The report of a@x for day 0 has been sent once, and the run of another
\* thread has asked for the same report and was refused.
C27_Witness ==
    /\ disp.sent[<<"a@x", 0>>] = 1
    /\ \E t \in Threads :
          /\ disp.th[t].pc = "aborted"
          /\ Head(disp.th[t].todo) = "a@x"
          /\ disp.th[t].date = 0

\* C29: a row of dispatch_log is pending exactly while one run holds its
\* claim, for the subscription that run is at, and has not finalized it;
\* every other row has been finalized exactly once, with the status sent,
\* skipped or failed.
C29_ClaimedThenFinalized ==
    \A key \in DispatchKeys :
        disp.log[key] # NoLog =>
            LET row == disp.log[key]
            IN  /\ row.id \in DispatchIds
                /\ \A t \in ClaimHolders(row.id) : <<Head(disp.th[t].todo), disp.th[t].date>> = key
                /\ IF row.status = "pending"
                   THEN Cardinality(ClaimHolders(row.id)) = 1 /\ disp.finalizes[row.id] = 0
                   ELSE /\ ClaimHolders(row.id) = {}
                        /\ disp.finalizes[row.id] = 1
                        /\ row.status \in {"sent", "skipped", "failed"}

\* A run over two subscriptions has returned: the report of a@x had raised
\* and its row is failed, the report of b@x was sent and its row is sent.
C29_Witness ==
    /\ \E t \in Threads : disp.th[t].pc = "done"
    /\ disp.log[<<"a@x", 0>>].status = "failed"
    /\ disp.log[<<"b@x", 0>>].status = "sent"
    /\ disp.finalizes[disp.log[<<"a@x", 0>>].id] = 1
    /\ disp.finalizes[disp.log[<<"b@x", 0>>].id] = 1

(***************************************************************************)
(* Part H: services/rate_limiter.py, RateLimiter.allow for one key, called *)
(* by the request threads from apply_global_rate_limit of app.py.          *)
(***************************************************************************)
\* The last reading of time.time() in the model.
MaxClock == 5

\* limit and window_seconds of the calls (GENERAL_RATE_LIMITS, scaled down).
RateLimit == 2

RateWindow == 2

\* while events and events[0] <= window_start: events.popleft()
RECURSIVE popleft_expired(_, _)
popleft_expired(events, window_start) ==
    IF Len(events) > 0 /\ events[1] <= window_start
    THEN popleft_expired(Tail(events), window_start)
    ELSE events

\* The body of allow under self._lock, for the reading `now` taken before
\* the lock: the answer and the deque it leaves.
allow(events, now, limit, window_seconds) ==
    IF limit <= 0 \/ window_seconds <= 0 THEN [allowed |-> TRUE, events |-> events]
    ELSE LET kept == popleft_expired(events, now - window_seconds)
         IN  IF Len(kept) >= limit
             THEN [allowed |-> FALSE, events |-> kept]
             ELSE [allowed |-> TRUE, events |-> Append(kept, now)]

\* Time passes.
LimiterTick ==
    /\ rl.clock < MaxClock
    /\ rl' = [rl EXCEPT !.clock = @ + 1]
    /\ UNCHANGED <<store, disp>>

\* allow is entered: now = time.time(); window_start = now - window_seconds
AllowCall(t) ==
    /\ rl.th[t].pc = "idle"
    /\ rl' = [rl EXCEPT !.th[t] = [pc |-> "wait", now |-> rl.clock]]
    /\ UNCHANGED <<store, disp>>

\* with self._lock: ... return; the call is answered at the clock's reading
\* of this moment.
AllowAnswer(t) ==
    /\ rl.th[t].pc = "wait"
    /\ LET answer == allow(rl.events, rl.th[t].now, RateLimit, RateWindow)
       IN  rl' = [rl EXCEPT !.events = answer.events,
                            !.allowed = IF answer.allowed THEN Append(@, rl.clock) ELSE @,
                            !.th[t] = [pc |-> "idle", now |-> 0]]
    /\ UNCHANGED <<store, disp>>

InitLimiter == InitA /\ InitQuiet /\ InitRest

NextLimiter ==
    \/ LimiterTick /\ UNCHANGED <<varsA, varsQ, varsR>>
    \/ \E t \in Threads : AllowCall(t) /\ UNCHANGED <<varsA, varsQ, varsR>>
    \/ \E t \in Threads : AllowAnswer(t) /\ UNCHANGED <<varsA, varsQ, varsR>>

SpecLimiter == InitLimiter /\ [][NextLimiter]_vars

\* C30: in every interval of window_seconds, (T - window_seconds, T], at
\* most `limit` calls are answered as allowed, however the calls interleave.
C30_AtMostLimitPerWindow ==
    \A T \in 0..MaxClock :
        Cardinality({i \in DOMAIN rl.allowed :
                        T - RateWindow < rl.allowed[i] /\ rl.allowed[i] <= T}) <= RateLimit

====
